---- MODULE Spec2Model ----
(***************************************************************************)
(* A model of the AI Summarizer. The backend: the auth router (register,   *)
(* login, token issue), the verifyJWT middleware, the Summary routes of    *)
(* backend/server.js (create, update, delete, list, star, share, public    *)
(* lookup) and the health route behind CORS and the rate limiter. The      *)
(* browser: the App component's summarizing, history and speech handlers   *)
(* and the request helpers of src/api.js.                                  *)
(*                                                                         *)
(* Texts are sequences of one-character strings, so that trimming, case    *)
(* folding and regular-expression matching are computed, not assumed.      *)
(* Time is the clock in whole seconds, the resolution of a token's iat and *)
(* exp. Except for the health route, requests are those the rate limiter   *)
(* and CORS admit. A server handler leaves the browser's requests to the   *)
(* step that serves one of them; elsewhere they are unchanged.             *)
(***************************************************************************)
EXTENDS Integers, Sequences, FiniteSets, TLC

VARIABLES
    users,        \* the User collection: records [_id, email, passwordHash]
    pending,      \* register requests between User.findOne and User.create
    registered201,\* per email, how many register requests were answered 201
    now,          \* the clock, in seconds
    ticks,        \* how often the clock advanced
    issued,       \* every token sign() has returned so far
    clientToken,  \* localStorage "token" of the browser client
    summaries,    \* the Summary collection: a set of documents
    nextId,       \* how many Summary _ids were generated
    last,         \* the last completed request/response exchange
    prev,         \* the create or share exchange right before last, if any
    walk,         \* the pages a client fetched for one query, store unchanged
    starring,     \* star requests between Summary.findById and doc.save
    hits,         \* requests the rate limiter counted in the current window
    connected,    \* whether mongoose holds a connection to the store
    ui,           \* the App component's state, its refs and its draft
    net,          \* the App's requests that have not settled yet
    synth         \* window.speechSynthesis

vars == <<users, pending, registered201, now, ticks, issued, clientToken,
          summaries, nextId, last, prev, walk, starring, hits, connected,
          ui, net, synth>>

authVars == <<users, pending, registered201, issued>>
storeVars == <<summaries, nextId>>
edgeVars == <<hits, connected>>
browserVars == <<ui, net, synth>>

---------------------------------------------------------------------------
(* Bounds of the model *)

MaxTicks == 2
MaxInflight == 2
MaxTokens == 2
MaxDocs == 2
MaxQLen == 2
MaxPage == 3
MaxStarring == 1

(* Program constants *)

ExpiresIn == 900
MinPasswordLen == 6
NoteMax == 20000
SummaryMax == 8000
TagsMax == 10
SlugLen == 10

---------------------------------------------------------------------------
(* Texts *)

Min(a, b) == IF a < b THEN a ELSE b

IsSpace(c) == c = " "

\* String.prototype.toLowerCase on one character of the alphabet used here.
LowerChar(c) == IF c = "A" THEN "a" ELSE IF c = "B" THEN "b" ELSE c

RECURSIVE TrimStart(_)
TrimStart(s) ==
    IF s = <<>> THEN <<>>
    ELSE IF IsSpace(Head(s)) THEN TrimStart(Tail(s)) ELSE s

RECURSIVE TrimEnd(_)
TrimEnd(s) ==
    IF s = <<>> THEN <<>>
    ELSE IF IsSpace(s[Len(s)]) THEN TrimEnd(SubSeq(s, 1, Len(s) - 1)) ELSE s

\* String.prototype.trim
Trim(s) == TrimEnd(TrimStart(s))

---------------------------------------------------------------------------
(* Exchanges: what a handler was asked and what it answered *)

NoExchange == [op |-> "none", req |-> [x |-> 0], status |-> 0, body |-> [x |-> 0]]

Exchange(op, req, status, body) ==
    [op |-> op, req |-> req, status |-> status, body |-> body]

\* prev keeps a create or share exchange that succeeded, nothing else.
Keep(ex) ==
    IF ex.op \in {"create", "share"} /\ ex.status \in {200, 201} THEN ex ELSE NoExchange

EmptyWalk == [key |-> <<>>, pages |-> <<>>]

---------------------------------------------------------------------------
(* The User model (backend/models/User.js): unique email, hashed password *)

EmailInputs == {"a@b.com", "c@d.com", "nope"}
PasswordInputs == {"secret1", "abc"}
LoginPasswords == {"secret1", "secret2"}

\* express-validator's isEmail on the inputs used here.
IsEmail(e) == e \in {"a@b.com", "c@d.com"}

Hash(password) == <<"hash", password>>

UserFindOne(email) == {u \in users : u.email = email}

comparePassword(u, password) == u.passwordHash = Hash(password)

\* The unique index on email: E11000 when the email is already stored.
DuplicateEmail(email) == \E u \in users : u.email = email

NewUser(email, password) ==
    [email |-> email, passwordHash |-> Hash(password), _id |-> Cardinality(users) + 1]

---------------------------------------------------------------------------
(* Tokens: routes/auth.js sign, middleware/auth.js verifyJWT *)

NoToken == [kind |-> "empty"]
Garbage == [kind |-> "garbage"]

signSwapped(u) ==
    [email |-> "a@b.com", kind |-> "jwt", id |-> u._id, iat |-> now,
     exp |-> now + ExpiresIn, sig |-> "server"]

\* jwt.sign({ id, email }, JWT_SECRET, { expiresIn: "15m" })
sign(u) ==
    [email |-> u.email, kind |-> "jwt", id |-> u._id, iat |-> now,
     exp |-> now + ExpiresIn, sig |-> "server"]

\* A token signed with another secret.
Forged ==
    [email |-> "a@b.com", kind |-> "jwt", id |-> 1, iat |-> now,
     exp |-> now + ExpiresIn, sig |-> "other"]

\* jwt.verify(token, JWT_SECRET): the signature and the expiry.
jwtVerifies(token) ==
    /\ token.kind = "jwt"
    /\ token.sig = "server"
    /\ now < token.exp

NoAuth == [token |-> NoToken, scheme |-> "none"]
Bearer(t) == [token |-> t, scheme |-> "Bearer"]
Basic(t) == [token |-> t, scheme |-> "Basic"]

\* The Authorization headers a request may carry in the current state.
AuthHeaders ==
    {NoAuth, Bearer(NoToken), Bearer(Garbage), Bearer(Forged)}
        \cup {Bearer(t) : t \in issued} \cup {Basic(t) : t \in issued}

verifyJWTRevoking(auth) ==
    LET token == IF auth.scheme = "Bearer" THEN auth.token ELSE NoToken
    IN  IF token = NoToken
        THEN [status |-> 401, ok |-> FALSE, message |-> "Unauthorized"]
        ELSE IF ~jwtVerifies(token) \/ token # clientToken
        THEN [status |-> 401, ok |-> FALSE, message |-> "Invalid token"]
        ELSE [ok |-> TRUE, user |-> [email |-> token.email, id |-> token.id]]

verifyJWTAnyScheme(auth) ==
    LET token == auth.token
    IN  IF token = NoToken
        THEN [status |-> 401, ok |-> FALSE, message |-> "Unauthorized"]
        ELSE IF ~jwtVerifies(token)
        THEN [status |-> 401, ok |-> FALSE, message |-> "Invalid token"]
        ELSE [ok |-> TRUE, user |-> [email |-> token.email, id |-> token.id]]

\* verifyJWT: 401 without a Bearer token or with one that fails jwt.verify,
\* otherwise req.user = { id, email } and next().
verifyJWT(auth) ==
    LET token == IF auth.scheme = "Bearer" THEN auth.token ELSE NoToken
    IN  IF token = NoToken
        THEN [status |-> 401, ok |-> FALSE, message |-> "Unauthorized"]
        ELSE IF ~jwtVerifies(token)
        THEN [status |-> 401, ok |-> FALSE, message |-> "Invalid token"]
        ELSE [ok |-> TRUE, user |-> [email |-> token.email, id |-> token.id]]

---------------------------------------------------------------------------
(* POST /api/auth/register and /api/auth/login *)

RegisterValid(email, password) == IsEmail(email) /\ Len(password) >= MinPasswordLen

Respond(ex) == /\ last' = ex
               /\ prev' = Keep(last)

RegisterFindOneNoCheck(email, password) ==
    /\ Len(pending) < MaxInflight
    /\ pending' = Append(pending, [password |-> password, email |-> email])
    /\ UNCHANGED <<users, registered201, issued, last, prev>>
    /\ UNCHANGED <<now, ticks, clientToken, summaries, nextId, walk, starring, edgeVars,
                     browserVars>>

\* The handler up to its first await: validation, then User.findOne.
RegisterFindOne(email, password) ==
    LET req == [password |-> password, email |-> email]
    IN  /\ IF ~RegisterValid(email, password)
           THEN /\ Respond(Exchange("register", req, 400, [errors |-> TRUE]))
                /\ UNCHANGED pending
           ELSE IF UserFindOne(email) # {}
           THEN /\ Respond(Exchange("register", req, 409,
                                    [message |-> "Email already registered"]))
                /\ UNCHANGED pending
           ELSE /\ Len(pending) < MaxInflight
                /\ pending' = Append(pending, req)
                /\ UNCHANGED <<last, prev>>
        /\ UNCHANGED <<users, registered201, issued>>
        /\ UNCHANGED <<now, ticks, clientToken, summaries, nextId, walk, starring, edgeVars,
                     browserVars>>

Without(seq, i) == SubSeq(seq, 1, i - 1) \o SubSeq(seq, i + 1, Len(seq))

RegisterCreateSwallow(i) ==
    LET req == pending[i]
        user == NewUser(req.email, req.password)
        token == sign(user)
    IN  /\ Cardinality(issued \cup {token}) <= MaxTokens
        /\ registered201[req.email] < 2
        /\ pending' = Without(pending, i)
        /\ users' = IF DuplicateEmail(req.email) THEN users ELSE users \cup {user}
        /\ issued' = issued \cup {token}
        /\ registered201' = [registered201 EXCEPT ![req.email] = @ + 1]
        /\ Respond(Exchange("register", req, 201,
               [token |-> token, user |-> [email |-> user.email, id |-> user._id]]))
        /\ UNCHANGED <<now, ticks, clientToken, summaries, nextId, walk, starring, edgeVars,
                     browserVars>>

\* The rest of the handler: User.create, then 201 with sign(user); an error
\* of the store (the unique index) is caught and answered 500.
RegisterCreate(i) ==
    LET req == pending[i]
        user == NewUser(req.email, req.password)
        token == sign(user)
    IN  /\ pending' = Without(pending, i)
        /\ IF DuplicateEmail(req.email)
           THEN /\ Respond(Exchange("register", req, 500, [message |-> "E11000"]))
                /\ UNCHANGED <<users, issued, registered201>>
           ELSE /\ Cardinality(issued \cup {token}) <= MaxTokens
                /\ users' = users \cup {user}
                /\ issued' = issued \cup {token}
                /\ registered201' = [registered201 EXCEPT ![req.email] = @ + 1]
                /\ Respond(Exchange("register", req, 201,
                       [token |-> token,
                        user |-> [email |-> user.email, id |-> user._id]]))
        /\ UNCHANGED <<now, ticks, clientToken, summaries, nextId, walk, starring, edgeVars,
                     browserVars>>

\* POST /login: 400 on validation, 401 on an unknown email or a wrong
\* password, otherwise 200 with sign(user).
Login(email, password) ==
    LET req == [password |-> password, email |-> email]
        found == UserFindOne(email)
    IN  /\ IF ~IsEmail(email)
           THEN /\ Respond(Exchange("login", req, 400, [errors |-> TRUE]))
                /\ UNCHANGED issued
           ELSE IF found = {} \/ \A u \in found : ~comparePassword(u, password)
           THEN /\ Respond(Exchange("login", req, 401,
                                    [message |-> "Invalid credentials"]))
                /\ UNCHANGED issued
           ELSE \E u \in found :
                   LET token == sign(u)
                   IN  /\ comparePassword(u, password)
                       /\ Cardinality(issued \cup {token}) <= MaxTokens
                       /\ issued' = issued \cup {token}
                       /\ Respond(Exchange("login", req, 200,
                              [token |-> token,
                               user |-> [email |-> u.email, id |-> u._id]]))
        /\ UNCHANGED <<users, pending, registered201>>
        /\ UNCHANGED <<now, ticks, clientToken, summaries, nextId, walk, starring, edgeVars,
                     browserVars>>

---------------------------------------------------------------------------
(* The browser: the App component after its first render *)

NoToast == "none"
NoUtterance == [text |-> <<>>, made |-> 0]

\* The useState initial values, the refs, and localStorage's draft entry.
Mounted(token) ==
    [token |-> token, note |-> <<>>, summary |-> <<>>, loading |-> FALSE,
     history |-> <<>>, historyLoading |-> TRUE, isSpeaking |-> FALSE,
     paused |-> FALSE, showResumeOptions |-> FALSE, search |-> <<>>,
     toast |-> NoToast, tagsInput |-> <<>>, page |-> 1, hasMore |-> TRUE,
     showAuth |-> FALSE, utteranceRef |-> NoUtterance, draft |-> [t |-> "null"],
     searchTimer |-> FALSE]

\* speechSynthesis with nothing queued: the utterance at the head of its
\* queue, its paused flag, how many utterances speak() was given, and whether
\* a cancelled utterance's last event is still to be delivered.
Silent == [paused |-> FALSE, utterance |-> NoUtterance, spoken |-> 0, ending |-> FALSE]

---------------------------------------------------------------------------
(* The clock and the browser client's token *)

ClockSteps == {1, ExpiresIn - 1}

Tick(d) ==
    /\ ticks < MaxTicks
    /\ now' = now + d
    /\ ticks' = ticks + 1
    /\ UNCHANGED <<authVars, starring, edgeVars, browserVars, clientToken, storeVars, last, prev, walk>>

\* handleAuthSubmit: a response with a token is kept in localStorage.
StoreToken ==
    /\ last.op \in {"register", "login"}
    /\ last.status \in {200, 201}
    /\ clientToken # last.body.token
    /\ clientToken' = last.body.token
    /\ ui' = [ui EXCEPT !.token = last.body.token, !.showAuth = FALSE]
    /\ UNCHANGED <<authVars, starring, edgeVars, net, synth, now, ticks, storeVars, last, prev, walk>>

\* signOut: the client discards its token; the server is not told.
signOut ==
    /\ clientToken # NoToken
    /\ clientToken' = NoToken
    /\ ui' = [ui EXCEPT !.token = NoToken]
    /\ UNCHANGED <<authVars, starring, edgeVars, net, synth, now, ticks, storeVars, last, prev, walk>>

---------------------------------------------------------------------------
(* JSON values of request bodies *)

Str(s) == [s |-> s, t |-> "str"]
Num(n) == [t |-> "num", n |-> n]
Bool(b) == [b |-> b, t |-> "bool"]
Arr(a) == [a |-> a, t |-> "arr"]
Null == [t |-> "null"]

\* The body express.json() gives a request with no fields: {}.
EmptyBody == [f \in {} |-> Null]

Has(body, f) == f \in DOMAIN body

\* express-validator: isString().isLength({ min, max })
IsStringOfLength(v, lo, hi) == v.t = "str" /\ Len(v.s) >= lo /\ Len(v.s) <= hi

\* express-validator: isArray({ max })
IsArrayMax(v, hi) == v.t = "arr" /\ Len(v.a) <= hi

\* The strings validator.js isBoolean accepts.
BooleanStrings == {<<"t", "r", "u", "e">>, <<"f", "a", "l", "s", "e">>, <<"1">>, <<"0">>}

\* express-validator: isBoolean() is validator.js isBoolean on the value
\* converted to a string, so true, false, 1, 0 and their strings pass.
IsBoolean(v) ==
    \/ v.t = "bool"
    \/ v.t = "num" /\ v.n \in {0, 1}
    \/ v.t = "str" /\ v.s \in BooleanStrings

\* Mongoose's cast of a value that passed isBoolean() to the Boolean path.
castBoolean(v) ==
    IF v.t = "bool" THEN v.b
    ELSE IF v.t = "num" THEN v.n = 1
    ELSE v.s \in {<<"t", "r", "u", "e">>, <<"1">>}

\* Boolean(v) of a JSON value that is not null.
Truthy(v) ==
    IF v.t = "bool" THEN v.b
    ELSE IF v.t = "num" THEN v.n # 0
    ELSE IF v.t = "str" THEN v.s # <<>>
    ELSE TRUE

\* The validation chain of POST /api/summaries: the fields that fail.
CreateErrors(body) ==
    {f \in {"note"} : ~(Has(body, f) /\ IsStringOfLength(body[f], 1, NoteMax))}
    \cup {f \in {"summary"} : ~(Has(body, f) /\ IsStringOfLength(body[f], 1, SummaryMax))}
    \cup {f \in {"tags"} : Has(body, f) /\ ~IsArrayMax(body[f], TagsMax)}

\* The validation chain of PUT /api/summaries/:id: every field is optional.
UpdateErrors(body) ==
    {f \in {"note"} : Has(body, f) /\ ~IsStringOfLength(body[f], 1, NoteMax)}
    \cup {f \in {"summary"} : Has(body, f) /\ ~IsStringOfLength(body[f], 1, SummaryMax)}
    \cup {f \in {"tags"} : Has(body, f) /\ ~IsArrayMax(body[f], TagsMax)}
    \cup {f \in {"starred"} : Has(body, f) /\ ~IsBoolean(body[f])}

---------------------------------------------------------------------------
(* The Summary model: summarySchema and the store operations used *)

\* The value of slug in a document that has no slug field.
NoSlug == ""

\* A request id that is no ObjectId (a CastError in the store).
BadId == 0

IsObjectId(id) == id >= 1

ById(id) == {d \in summaries : d._id = id}

\* The unique sparse index on slug.
SlugTaken(slug, id) ==
    slug # NoSlug /\ \E d \in summaries : d._id # id /\ d.slug = slug

\* tags.map((t) => String(t)) on an array of JSON strings.
Strings(s) == [i \in 1..Len(s) |-> s[i].s]

\* The schema's trim: true, and .map((t) => t.trim()), on an array of strings.
TrimAll(s) == [i \in 1..Len(s) |-> Trim(s[i])]

RECURSIVE SelectNonEmpty(_)
\* Array.prototype.filter(Boolean) on an array of strings.
SelectNonEmpty(s) ==
    IF s = <<>> THEN <<>>
    ELSE IF Head(s) = <<>> THEN SelectNonEmpty(Tail(s))
    ELSE <<Head(s)>> \o SelectNonEmpty(Tail(s))

cleanedNoFilter(tags) ==
    SubSeq(TrimAll(Strings(tags)), 1, Min(TagsMax, Len(tags)))

\* tags.map((t) => String(t).trim()).filter(Boolean).slice(0, 10)
cleaned(tags) ==
    LET kept == SelectNonEmpty(TrimAll(Strings(tags)))
    IN  SubSeq(kept, 1, Min(TagsMax, Len(kept)))

\* The paths of summarySchema.
SchemaPaths == {"note", "summary", "tags", "starred", "slug", "createdAt"}

\* Strict mode: a field that is no path of the schema is not kept.
Strict(given) == [f \in DOMAIN given \cap SchemaPaths |-> given[f]]

\* new Summary({ note, summary, tags, userId }): the schema keeps its own
\* paths (userId is none of them), trims each tag and fills the defaults.
NewSummary(note, summary, tags, userId) ==
    LET given == [note |-> note, summary |-> summary, tags |-> TrimAll(tags),
                  userId |-> userId]
    IN  Strict(given) @@ [_id |-> nextId + 1, slug |-> NoSlug, starred |-> FALSE,
                          createdAt |-> now]

\* The $set an update body is cast to: the schema's paths in the body.
ApplyUpdate(d, body) ==
    [d EXCEPT
       !.note = IF Has(body, "note") THEN body["note"].s ELSE @,
       !.summary = IF Has(body, "summary") THEN body["summary"].s ELSE @,
       !.tags = IF Has(body, "tags")
                THEN TrimAll(Strings(body["tags"].a)) ELSE @,
       !.starred = IF Has(body, "starred") THEN castBoolean(body["starred"]) ELSE @,
       !.slug = IF Has(body, "slug") THEN body["slug"] ELSE @,
       !.createdAt = IF Has(body, "createdAt") THEN body["createdAt"] ELSE @]

Replace(d, e) == (summaries \ {d}) \cup {e}

---------------------------------------------------------------------------
(* The protected routes: verifyJWT, the validation chain, the handler *)

Unauthorized(op, req, v) == Exchange(op, req, 401, [message |-> v.message])

\* POST /api/summaries
PostSummary(auth, body) ==
    LET v == verifyJWT(auth)
        req == [body |-> body, auth |-> auth]
    IN  /\ IF ~v.ok
           THEN /\ Respond(Unauthorized("create", req, v))
                /\ UNCHANGED <<storeVars, walk>>
           ELSE IF CreateErrors(body) # {}
           THEN /\ Respond(Exchange("create", req, 400, [errors |-> CreateErrors(body)]))
                /\ UNCHANGED <<storeVars, walk>>
           ELSE LET tags == IF Has(body, "tags") THEN body["tags"].a ELSE <<>>
                    doc == NewSummary(body["note"].s, body["summary"].s, cleaned(tags),
                                     v.user.id)
                IN  /\ nextId < MaxDocs
                    /\ summaries' = summaries \cup {doc}
                    /\ nextId' = nextId + 1
                    /\ walk' = EmptyWalk
                    /\ Respond(Exchange("create", req, 201, doc))
        /\ UNCHANGED <<authVars, starring, edgeVars, now, ticks, clientToken>>

\* PUT /api/summaries/:id
PutSummary(auth, id, body) ==
    LET v == verifyJWT(auth)
        req == [body |-> body, id |-> id, auth |-> auth]
    IN  /\ IF ~v.ok
           THEN /\ Respond(Unauthorized("update", req, v))
                /\ UNCHANGED <<storeVars, walk>>
           ELSE IF UpdateErrors(body) # {}
           THEN /\ Respond(Exchange("update", req, 400, [errors |-> UpdateErrors(body)]))
                /\ UNCHANGED <<storeVars, walk>>
           ELSE IF ~IsObjectId(id)
           THEN /\ Respond(Exchange("update", req, 400, [message |-> "CastError"]))
                /\ UNCHANGED <<storeVars, walk>>
           ELSE IF ById(id) = {}
           THEN /\ Respond(Exchange("update", req, 404, [message |-> "Summary not found"]))
                /\ UNCHANGED <<storeVars, walk>>
           ELSE \E d \in ById(id) :
                   LET updated == ApplyUpdate(d, body)
                   IN  IF SlugTaken(updated.slug, id)
                       THEN /\ Respond(Exchange("update", req, 400, [message |-> "E11000"]))
                            /\ UNCHANGED <<storeVars, walk>>
                       ELSE /\ summaries' = Replace(d, updated)
                            /\ walk' = EmptyWalk
                            /\ Respond(Exchange("update", req, 200, updated))
                            /\ UNCHANGED nextId
        /\ UNCHANGED <<authVars, starring, edgeVars, browserVars, now, ticks, clientToken>>

DeleteSummaryNoCheck(auth, id) ==
    LET v == verifyJWT(auth)
        req == [id |-> id, auth |-> auth]
    IN  /\ v.ok
        /\ IsObjectId(id)
        /\ summaries' = summaries \ ById(id)
        /\ walk' = EmptyWalk
        /\ Respond(Exchange("delete", req, 200,
                            [message |-> "Summary deleted successfully"]))
        /\ UNCHANGED <<authVars, starring, edgeVars, browserVars, now, ticks, clientToken, nextId>>

DeleteSummaryOwnerOnly(auth, id) ==
    LET v == verifyJWT(auth)
        req == [id |-> id, auth |-> auth]
    IN  /\ v.ok
        /\ IF v.user.id = 1
           THEN /\ summaries' = summaries \ ById(id)
                /\ Respond(Exchange("delete", req, IF ById(id) = {} THEN 404 ELSE 200,
                                    [message |-> "Summary deleted successfully"]))
           ELSE /\ UNCHANGED summaries
                /\ Respond(Exchange("delete", req, 403, [message |-> "Forbidden"]))
        /\ walk' = EmptyWalk
        /\ UNCHANGED <<authVars, starring, edgeVars, browserVars, now, ticks, clientToken, nextId>>

\* DELETE /api/summaries/:id
DeleteSummary(auth, id) ==
    LET v == verifyJWT(auth)
        req == [id |-> id, auth |-> auth]
    IN  /\ IF ~v.ok
           THEN /\ Respond(Unauthorized("delete", req, v))
                /\ UNCHANGED <<storeVars, walk>>
           ELSE IF ~IsObjectId(id)
           THEN /\ Respond(Exchange("delete", req, 400, [message |-> "CastError"]))
                /\ UNCHANGED <<storeVars, walk>>
           ELSE IF ById(id) = {}
           THEN /\ Respond(Exchange("delete", req, 404, [message |-> "Summary not found"]))
                /\ UNCHANGED <<storeVars, walk>>
           ELSE /\ summaries' = summaries \ ById(id)
                /\ walk' = EmptyWalk
                /\ Respond(Exchange("delete", req, 200,
                                    [message |-> "Summary deleted successfully"]))
                /\ UNCHANGED nextId
        /\ UNCHANGED <<authVars, starring, edgeVars, browserVars, now, ticks, clientToken>>

---------------------------------------------------------------------------
(* Starring: PATCH /api/summaries/:id/star, which takes no token *)

starredValueNoToggle(body, doc) ==
    Has(body, "starred") /\ body["starred"].t # "null" /\ Truthy(body["starred"])

\* Boolean(req.body.starred ?? !doc.starred)
starredValue(body, doc) ==
    IF Has(body, "starred") /\ body["starred"].t # "null"
    THEN Truthy(body["starred"])
    ELSE ~doc.starred

\* The first half of the handler: Summary.findById, 400 on an id that does
\* not cast, 404 when no document is found.
starFind(id, body) ==
    LET req == [body |-> body, id |-> id]
    IN  /\ IF ~IsObjectId(id)
           THEN /\ Respond(Exchange("star", req, 400, [message |-> "CastError"]))
                /\ UNCHANGED starring
           ELSE IF ById(id) = {}
           THEN /\ Respond(Exchange("star", req, 404, [message |-> "Summary not found"]))
                /\ UNCHANGED starring
           ELSE \E d \in ById(id) :
                   /\ Len(starring) < MaxStarring
                   /\ starring' = Append(starring, [body |-> body, id |-> id, doc |-> d])
                   /\ UNCHANGED <<last, prev>>
        /\ UNCHANGED <<authVars, edgeVars, browserVars, now, ticks, clientToken, storeVars, walk>>

starSaveUpsert(i) ==
    LET r == starring[i]
        req == [body |-> r.body, id |-> r.id]
        doc == [r.doc EXCEPT !.starred = starredValue(r.body, r.doc)]
    IN  /\ starring' = Without(starring, i)
        /\ summaries' = (summaries \ ById(r.id)) \cup {doc}
        /\ walk' = EmptyWalk
        /\ Respond(Exchange("star", req, 200, doc))
        /\ UNCHANGED <<users, pending, registered201, issued, now, ticks, clientToken,
                     nextId, edgeVars, browserVars>>

starSaveVersioned(i) ==
    LET r == starring[i]
        req == [body |-> r.body, id |-> r.id]
        doc == [r.doc EXCEPT !.starred = starredValue(r.body, r.doc)]
    IN  /\ starring' = Without(starring, i)
        /\ IF r.doc \notin summaries
           THEN /\ Respond(Exchange("star", req, 409, [message |-> "VersionError"]))
                /\ UNCHANGED <<storeVars, walk>>
           ELSE /\ summaries' = Replace(r.doc, doc)
                /\ walk' = EmptyWalk
                /\ Respond(Exchange("star", req, 200, doc))
                /\ UNCHANGED nextId
        /\ UNCHANGED <<users, pending, registered201, issued, now, ticks, clientToken,
                     edgeVars, browserVars>>

\* The second half: doc.starred is assigned and doc.save() writes the
\* modified path, starred, to the stored document. When the document has
\* been deleted meanwhile nothing is written; save() then resolves or
\* throws DocumentNotFoundError (400), depending on the Mongoose version.
starSave(i) ==
    LET r == starring[i]
        req == [body |-> r.body, id |-> r.id]
        doc == [r.doc EXCEPT !.starred = starredValue(r.body, r.doc)]
    IN  /\ starring' = Without(starring, i)
        /\ IF ById(r.id) = {}
           THEN /\ \/ Respond(Exchange("star", req, 200, doc))
                   \/ Respond(Exchange("star", req, 400,
                                       [message |-> "DocumentNotFoundError"]))
                /\ UNCHANGED <<storeVars, walk>>
           ELSE \E e \in ById(r.id) :
                   /\ summaries' =
                         IF doc.starred = r.doc.starred THEN summaries
                         ELSE Replace(e, [e EXCEPT !.starred = doc.starred])
                   /\ walk' = EmptyWalk
                   /\ Respond(Exchange("star", req, 200, doc))
                   /\ UNCHANGED nextId
        /\ UNCHANGED <<users, pending, registered201, issued, now, ticks, clientToken,
                     edgeVars, browserVars>>

---------------------------------------------------------------------------
(* Sharing: POST /api/summaries/:id/share and GET /api/s/:slug *)

\* The strings nanoid(10) may return: 10 characters each.
SlugPool == {"V1StGXR8_Z", "uf8Kq2-LmA"}

shareKeepFirst(id, slug) ==
    LET req == [id |-> id]
    IN  /\ IsObjectId(id)
        /\ ById(id) # {}
        /\ \E d \in ById(id) :
              LET s == IF d.slug = NoSlug THEN slug ELSE d.slug
              IN  /\ ~SlugTaken(s, id)
                  /\ summaries' = Replace(d, [d EXCEPT !.slug = s])
                  /\ walk' = EmptyWalk
                  /\ Respond(Exchange("share", req, 200, [slug |-> slug]))
                  /\ UNCHANGED nextId
        /\ UNCHANGED <<authVars, starring, edgeVars, browserVars, now, ticks, clientToken>>

shareOverwrite(id, slug) ==
    LET req == [id |-> id]
    IN  /\ IsObjectId(id)
        /\ \E d \in ById(id) :
              /\ summaries' = Replace(d, [d EXCEPT !.slug = slug])
              /\ walk' = EmptyWalk
              /\ Respond(Exchange("share", req, 200, [slug |-> slug]))
              /\ UNCHANGED nextId
        /\ UNCHANGED <<authVars, starring, edgeVars, browserVars, now, ticks, clientToken>>

\* slug = nanoid(10); findByIdAndUpdate(id, { slug }, { new: true })
share(id, slug) ==
    LET req == [id |-> id]
    IN  /\ IF ~IsObjectId(id)
           THEN /\ Respond(Exchange("share", req, 500, [message |-> "CastError"]))
                /\ UNCHANGED <<storeVars, walk>>
           ELSE IF ById(id) = {}
           THEN /\ Respond(Exchange("share", req, 404, [message |-> "Summary not found"]))
                /\ UNCHANGED <<storeVars, walk>>
           ELSE IF SlugTaken(slug, id)
           THEN /\ Respond(Exchange("share", req, 500, [message |-> "E11000"]))
                /\ UNCHANGED <<storeVars, walk>>
           ELSE \E d \in ById(id) :
                   /\ summaries' = Replace(d, [d EXCEPT !.slug = slug])
                   /\ walk' = EmptyWalk
                   /\ Respond(Exchange("share", req, 200, [slug |-> slug]))
                   /\ UNCHANGED nextId
        /\ UNCHANGED <<authVars, starring, edgeVars, browserVars, now, ticks, clientToken>>

\* Summary.findOne({ slug })
FindBySlug(slug) == {d \in summaries : d.slug = slug}

PublicViewWithId(d) ==
    [_id |-> d._id, note |-> d.note, summary |-> d.summary, tags |-> d.tags,
     createdAt |-> d.createdAt]

\* The body of a successful GET /api/s/:slug.
PublicView(d) ==
    [note |-> d.note, summary |-> d.summary, tags |-> d.tags, createdAt |-> d.createdAt]

\* What GET /api/s/:slug answers in the current state.
SlugResponses(slug) ==
    IF FindBySlug(slug) = {}
    THEN {Exchange("public", [slug |-> slug], 404, [message |-> "Not found"])}
    ELSE {Exchange("public", [slug |-> slug], 200, PublicView(d)) : d \in FindBySlug(slug)}

\* GET /api/s/:slug
getBySlug(slug) ==
    /\ \E ex \in SlugResponses(slug) : Respond(ex)
    /\ UNCHANGED <<authVars, starring, edgeVars, browserVars, now, ticks, clientToken, storeVars, walk>>

---------------------------------------------------------------------------
(* Listing: GET /api/summaries *)

\* Raw query parameters: absent, "", a string of an integer, another string.
Absent == [t |-> "absent"]
EmptyParam == [t |-> "empty"]
IntParam(n) == [t |-> "int", n |-> n]
TextParam == [t |-> "text"]

NaN == [n |-> 0, nan |-> TRUE]

\* Number(raw || 0)
NumberOr0(raw) ==
    IF raw.t = "int" THEN [n |-> raw.n, nan |-> FALSE]
    ELSE IF raw.t = "text" THEN NaN
    ELSE [n |-> 0, nan |-> FALSE]

\* x > 0 in JavaScript: false for NaN.
Positive(x) == ~x.nan /\ x.n > 0

\* (req.query.q || "").toString().trim()
QueryText(raw) == IF raw.t = "str" THEN Trim(raw.s) ELSE <<>>

\* req.query.sort || "-createdAt"
SortOf(raw) == IF raw.t = "str" THEN raw.s ELSE "-createdAt"

Descending(sort) == sort \in {"-createdAt", "-starred"}
SortField(sort) == IF sort \in {"createdAt", "-createdAt"} THEN "createdAt" ELSE "starred"

SortKey(d, sort) ==
    IF SortField(sort) = "createdAt" THEN d.createdAt
    ELSE IF d.starred THEN 1 ELSE 0

\* d may come before e under sort.
InOrder(d, e, sort) ==
    IF Descending(sort) THEN SortKey(d, sort) >= SortKey(e, sort)
    ELSE SortKey(d, sort) <= SortKey(e, sort)

\* new RegExp(q, "i") throws on an unterminated group.
ValidPattern(q) == \A i \in 1..Len(q) : q[i] # "("

\* RegExp.prototype.test for a pattern of literals and ".", flag i.
RegexTest(q, text) ==
    \E k \in 0..(Len(text) - Len(q)) :
        \A j \in 1..Len(q) : q[j] = "." \/ LowerChar(q[j]) = LowerChar(text[k + j])

\* { $or: [{ note: re }, { summary: re }, { tags: re }] }, or {} without q
filter(q) ==
    IF q = <<>> THEN summaries
    ELSE {d \in summaries :
            \/ RegexTest(q, d.note)
            \/ RegexTest(q, d.summary)
            \/ \E i \in 1..Len(d.tags) : RegexTest(q, d.tags[i])}

\* find(filter).sort(sort): the store may return ties in any order. Each
\* sequence starts with a document that may come before all others of S.
RECURSIVE Sorted(_, _)
Sorted(S, sort) ==
    IF S = {} THEN {<<>>}
    ELSE UNION {{<<d>> \o rest : rest \in Sorted(S \ {d}, sort)} :
                   d \in {x \in S : \A y \in S : InOrder(x, y, sort)}}

\* .skip(skip).limit(limit)
Slice(seq, skip, limit) == SubSeq(seq, skip + 1, Min(skip + limit, Len(seq)))

\* Math.ceil(total / limit)
Ceil(total, limit) == (total + limit - 1) \div limit

\* page > 1 && limit > 0
paginatedAfterFirst(page, limit) == ~page.nan /\ page.n > 1 /\ Positive(limit)

\* page > 0 && limit > 0
paginated(page, limit) == Positive(page) /\ Positive(limit)

\* GET /api/summaries
getSummaries(query) ==
    LET q == QueryText(query.q)
        page == NumberOr0(query.page)
        limit == NumberOr0(query.limit)
        sort == SortOf(query.sort)
        key == <<q, sort, limit.n>>
    IN  /\ IF ~ValidPattern(q)
           THEN /\ Respond(Exchange("list", query, 500, [message |-> "Invalid regular expression"]))
                /\ walk' = EmptyWalk
           ELSE IF paginated(page, limit)
           THEN \E all \in Sorted(filter(q), sort) :
                   LET items == Slice(all, (page.n - 1) * limit.n, limit.n)
                       total == Cardinality(filter(q))
                   IN  /\ Respond(Exchange("list", query, 200,
                              [pages |-> Ceil(total, limit.n), page |-> page.n, total |-> total,
                               items |-> items, shape |-> "object"]))
                       /\ walk' = [key |-> key,
                                   pages |-> IF walk.key = key
                                             THEN (page.n :> items) @@ walk.pages
                                             ELSE (page.n :> items)]
           ELSE \E all \in Sorted(filter(q), sort) :
                   /\ Respond(Exchange("list", query, 200, [items |-> all, shape |-> "array"]))
                   /\ walk' = EmptyWalk
        /\ UNCHANGED <<authVars, starring, edgeVars, now, ticks, clientToken, storeVars>>

---------------------------------------------------------------------------
(* The server from start-up: accounts, tokens and the protected routes *)

Init ==
    /\ users = {}
    /\ pending = <<>>
    /\ registered201 = [e \in EmailInputs |-> 0]
    /\ now = 0
    /\ ticks = 0
    /\ issued = {}
    /\ clientToken = NoToken
    /\ summaries = {}
    /\ nextId = 0
    /\ last = NoExchange
    /\ prev = NoExchange
    /\ walk = EmptyWalk
    /\ starring = <<>>
    /\ hits = 0
    /\ connected = TRUE
    /\ ui = Mounted(NoToken)
    /\ net = <<>>
    /\ synth = Silent

Ids == 1..MaxDocs

\* The tokens a client may present: issued ones, and ones that never verify.
IssuedHeaders == {Bearer(t) : t \in issued}

Next ==
    \/ \E e \in EmailInputs, p \in PasswordInputs : RegisterFindOne(e, p)
    \/ \E i \in 1..Len(pending) : RegisterCreate(i)
    \/ \E e \in EmailInputs, p \in LoginPasswords : Login(e, p)
    \/ \E d \in ClockSteps : Tick(d)
    \/ StoreToken
    \/ signOut
    \/ \E auth \in IssuedHeaders, id \in Ids : DeleteSummary(auth, id)

Spec == Init /\ [][Next]_vars

---------------------------------------------------------------------------
(* The Summary routes, from the state after one registration *)

FirstUser == [email |-> "a@b.com", passwordHash |-> Hash("secret1"), _id |-> 1]

FirstToken ==
    [email |-> "a@b.com", kind |-> "jwt", id |-> 1, iat |-> 0, exp |-> ExpiresIn,
     sig |-> "server"]

FirstExchange ==
    Exchange("register", [password |-> "secret1", email |-> "a@b.com"], 201,
             [token |-> FirstToken, user |-> [email |-> "a@b.com", id |-> 1]])

InitStore ==
    /\ users = {FirstUser}
    /\ pending = <<>>
    /\ registered201 = [e \in EmailInputs |-> IF e = "a@b.com" THEN 1 ELSE 0]
    /\ now = 0
    /\ ticks = 0
    /\ issued = {FirstToken}
    /\ clientToken = FirstToken
    /\ summaries = {}
    /\ nextId = 0
    /\ last = FirstExchange
    /\ prev = NoExchange
    /\ walk = EmptyWalk
    /\ starring = <<>>
    /\ hits = 0
    /\ connected = TRUE
    /\ ui = Mounted(FirstToken)
    /\ net = <<>>
    /\ synth = Silent

CreateBodies ==
    {[note |-> Str(<<"a", "b">>), summary |-> Str(<<"A">>)],
     [note |-> Str(<<"A">>), summary |-> Str(<<"b">>),
      tags |-> Arr(<<Str(<<" ", "a">>), Str(<<" ">>)>>)],
     [note |-> Str(<<>>), summary |-> Str(<<"A">>)]}

UpdateBodies ==
    {[starred |-> Bool(TRUE)],
     [starred |-> Num(1)]}

StoreHeaders == {NoAuth, Bearer(FirstToken)}

PlainQueries ==
    {[page |-> Absent, sort |-> s, q |-> Absent, limit |-> Absent] :
        s \in {Absent, Str("createdAt")}}

NextStore ==
    \/ \E auth \in StoreHeaders, body \in CreateBodies : PostSummary(auth, body) /\ UNCHANGED browserVars
    \/ \E auth \in StoreHeaders, id \in Ids \cup {BadId}, body \in UpdateBodies :
          PutSummary(auth, id, body)
    \/ \E auth \in StoreHeaders, id \in Ids \cup {BadId} : DeleteSummary(auth, id)
    \/ \E id \in Ids \cup {BadId}, slug \in SlugPool : share(id, slug)
    \/ \E slug \in SlugPool : getBySlug(slug)
    \/ \E query \in PlainQueries : getSummaries(query) /\ UNCHANGED browserVars

SpecStore == InitStore /\ [][NextStore]_vars

---------------------------------------------------------------------------
(* The gate of the protected routes, with every kind of Authorization *)

GateCreateBody == [note |-> Str(<<"a">>), summary |-> Str(<<"a">>)]
GateUpdateBody == [starred |-> Bool(TRUE)]

NextGate ==
    \/ \E d \in ClockSteps : Tick(d)
    \/ \E auth \in AuthHeaders : PostSummary(auth, GateCreateBody) /\ UNCHANGED browserVars
    \/ \E auth \in AuthHeaders, id \in Ids : PutSummary(auth, id, GateUpdateBody)
    \/ \E auth \in AuthHeaders, id \in Ids : DeleteSummary(auth, id)

SpecGate == InitStore /\ [][NextGate]_vars

---------------------------------------------------------------------------
(* Editing: what create and update store of the bodies they are sent *)

\* A createdAt an update body asks for.
OtherDate == 7

EditCreateBodies ==
    {[note |-> Str(<<"a">>), summary |-> Str(<<"a">>),
      tags |-> Arr(<<Str(<<" ", "a">>), Str(<<" ">>)>>)],
     [note |-> Str(<<>>), summary |-> Str(<<"a">>)]}

EditUpdateBodies ==
    {[slug |-> "V1StGXR8_Z"],
     [createdAt |-> OtherDate],
     [tags |-> Arr(<<Str(<<" ">>)>>)],
     [starred |-> Str(<<"1">>)],
     [starred |-> Str(<<"a">>)],
     [note |-> Str(<<>>)]}

NextEdit ==
    \/ \E auth \in StoreHeaders, body \in EditCreateBodies : PostSummary(auth, body) /\ UNCHANGED browserVars
    \/ \E id \in Ids, body \in EditUpdateBodies :
          PutSummary(Bearer(FirstToken), id, body)
    \/ \E id \in Ids : DeleteSummary(Bearer(FirstToken), id)
    \/ \E id \in Ids, slug \in SlugPool : share(id, slug)
    \/ \E slug \in SlugPool : getBySlug(slug)

SpecEdit == InitStore /\ [][NextEdit]_vars

---------------------------------------------------------------------------
(* Starring, with the writes that may fall between its read and its save *)

StarBodies == {EmptyBody, [starred |-> Bool(TRUE)], [starred |-> Bool(FALSE)],
               [starred |-> Null], [starred |-> Str(<<"0">>)]}

NextStar ==
    \/ PostSummary(Bearer(FirstToken), GateCreateBody) /\ UNCHANGED browserVars
    \/ \E id \in Ids \cup {BadId} : PutSummary(Bearer(FirstToken), id, GateUpdateBody)
    \/ \E id \in Ids \cup {BadId} : DeleteSummary(Bearer(FirstToken), id)
    \/ \E id \in Ids \cup {BadId}, body \in StarBodies : starFind(id, body)
    \/ \E i \in 1..Len(starring) : starSave(i)

SpecStar == InitStore /\ [][NextStar]_vars

---------------------------------------------------------------------------
(* Every operation that takes an id or a slug, on known and unknown ones *)

\* The slug the shares of this specification draw; the other slug of
\* SlugPool is then one that no record ever has.
DrawnSlugs == {"V1StGXR8_Z"}

NextUnknown ==
    \/ PostSummary(Bearer(FirstToken), GateCreateBody) /\ UNCHANGED browserVars
    \/ \E id \in Ids \cup {BadId} : PutSummary(Bearer(FirstToken), id, GateUpdateBody)
    \/ \E id \in Ids \cup {BadId} : DeleteSummary(Bearer(FirstToken), id)
    \/ \E id \in Ids \cup {BadId} : starFind(id, EmptyBody)
    \/ \E i \in 1..Len(starring) : starSave(i)
    \/ \E id \in Ids \cup {BadId}, slug \in DrawnSlugs : share(id, slug)
    \/ \E slug \in SlugPool : getBySlug(slug)

SpecUnknown == InitStore /\ [][NextUnknown]_vars

---------------------------------------------------------------------------
(* Listing over the stores the routes can build *)

\* The documents with _id i that the stores below are built from.
DocPool(i) ==
    {[_id |-> i, note |-> <<"a", "b">>, summary |-> <<"b">>, slug |-> NoSlug,
      tags |-> <<>>, starred |-> FALSE, createdAt |-> 0],
     [_id |-> i, note |-> <<"A">>, summary |-> <<"b">>, slug |-> NoSlug,
      tags |-> << <<"b", ".">> >>, starred |-> TRUE, createdAt |-> 0],
     [_id |-> i, note |-> <<"A">>, summary |-> <<"a", " ", "b">>, slug |-> NoSlug,
      tags |-> <<>>, starred |-> FALSE, createdAt |-> 1]}

RECURSIVE Stores(_)
\* Stores of n documents created in the order of their ids.
Stores(n) ==
    IF n = 0 THEN {{}}
    ELSE UNION {{S \cup {d} :
                    d \in {e \in DocPool(n) : \A x \in S : x.createdAt <= e.createdAt}} :
                  S \in Stores(n - 1)}

InitQuery ==
    /\ users = {FirstUser}
    /\ pending = <<>>
    /\ registered201 = [e \in EmailInputs |-> IF e = "a@b.com" THEN 1 ELSE 0]
    /\ now = 1
    /\ ticks = 1
    /\ issued = {FirstToken}
    /\ clientToken = FirstToken
    /\ \E n \in 0..MaxDocs : summaries \in Stores(n) /\ nextId = n
    /\ last = NoExchange
    /\ prev = NoExchange
    /\ walk = EmptyWalk
    /\ starring = <<>>
    /\ hits = 0
    /\ connected = TRUE
    /\ ui = Mounted(FirstToken)
    /\ net = <<>>
    /\ synth = Silent

QChars == {"a", "B", ".", " ", "("}

Texts(n) == UNION {[1..k -> QChars] : k \in 1..n}

\* Requests that filter, and requests that page through a listing.
FilterQueries ==
    {[page |-> Absent, sort |-> Absent, q |-> Str(x), limit |-> Absent] :
        x \in Texts(MaxQLen)}

PageParams == {Absent, TextParam} \cup {IntParam(n) : n \in 0..MaxPage}
LimitParams == {Absent, IntParam(0 - 1), IntParam(1), IntParam(2)}
SortParams == {Absent, Str("createdAt"), Str("-starred")}

PageQueries ==
    {[page |-> pg, sort |-> s, q |-> x, limit |-> l] :
        x \in {Absent, Str(<<"a">>)}, pg \in PageParams, l \in LimitParams, s \in SortParams}

NextQuery ==
    \/ \E query \in FilterQueries : getSummaries(query) /\ UNCHANGED browserVars
    \/ \E query \in PageQueries : getSummaries(query) /\ UNCHANGED browserVars

SpecQuery == InitQuery /\ [][NextQuery]_vars

---------------------------------------------------------------------------
(* Properties *)

Protected == {"create", "update", "delete"}

\* An Authorization header that is missing, not "Bearer <token>", or whose
\* token was not signed by the server or has reached its expiry.
BadAuth(auth) ==
    \/ auth.scheme # "Bearer"
    \/ auth.token.kind # "jwt"
    \/ auth.token.sig # "server"
    \/ now >= auth.token.exp

\* C1: a POST, PUT or DELETE on /summaries whose Authorization header is
\* missing, is not of the form Bearer <token>, or carries a token that fails
\* verification is answered 401 and leaves the Summary store as it was.
C1_GateRejects ==
    [][\A auth \in {a \in AuthHeaders : BadAuth(a)} :
          (\/ PostSummary(auth, GateCreateBody)
           \/ \E id \in Ids : PutSummary(auth, id, GateUpdateBody)
           \/ \E id \in Ids : DeleteSummary(auth, id))
          => (/\ last'.status = 401
              /\ last'.req.auth = auth
              /\ summaries' = summaries
              /\ nextId' = nextId)]_vars

\* C1 witness: an expired token was turned away from a store that holds a record.
C1_Witness ==
    /\ last.op \in Protected
    /\ last.status = 401
    /\ last.req.auth = Bearer(FirstToken)
    /\ summaries # {}

\* C2: whether verifyJWT accepts an issued token depends on the clock alone:
\* it is accepted at every time before iat + 15 minutes and rejected with 401
\* from then on, whatever sign-outs, logins and other requests happened.
C2_ExpiryOnly ==
    \A t \in issued :
        /\ t.exp = t.iat + ExpiresIn
        /\ now < t.iat + ExpiresIn => verifyJWT(Bearer(t)).ok
        /\ now >= t.iat + ExpiresIn =>
              ~verifyJWT(Bearer(t)).ok /\ verifyJWT(Bearer(t)).status = 401

\* C2 witness: the client signed out, a later login issued another token, and
\* the first token still passed the middleware (the route answered 404).
C2_Witness ==
    /\ clientToken = NoToken
    /\ last.op = "delete"
    /\ last.status = 404
    /\ \E t \in issued : t.iat > last.req.auth.token.iat
    /\ now > last.req.auth.token.iat

\* C3: the token of a successful register or login, presented as a Bearer
\* token before it expires, resolves to the id and email of the user in the
\* same response, which is the email that was submitted.
C3_TokenIdentity ==
    (/\ last.op \in {"register", "login"}
     /\ last.status \in {200, 201}
     /\ now < last.body.token.exp)
    => /\ verifyJWT(Bearer(last.body.token)).ok
       /\ verifyJWT(Bearer(last.body.token)).user = last.body.user
       /\ last.body.user.email = last.req.email
       /\ \E u \in users : u._id = last.body.user.id /\ u.email = last.body.user.email

\* C3 witness: a login of the second account, its token still live later on.
C3_Witness ==
    /\ last.op = "login"
    /\ last.status = 200
    /\ last.body.user.email = "c@d.com"
    /\ now > last.body.token.iat
    /\ now < last.body.token.exp

Registered(e) == \E u \in users : u.email = e

\* C4 as claimed: every later register request with a registered email is
\* answered 409, creates no user and issues no token.
C4_AlwaysConflict ==
    [][\A e \in EmailInputs, p \in PasswordInputs :
          (Registered(e) /\ RegisterFindOne(e, p))
          => (/\ last'.status = 409
              /\ users' = users
              /\ issued' = issued)]_vars

\* C4 as amended: a later register request with a registered email is
\* answered 409 "Email already registered" when its password has at least 6
\* characters and 400 otherwise; either way it creates no user, issues no
\* token and leaves the stored users as they were.
C4_ConflictOrInvalid ==
    [][\A e \in EmailInputs, p \in PasswordInputs :
          (Registered(e) /\ RegisterFindOne(e, p))
          => (/\ last'.op = "register"
              /\ last'.req.email = e
              /\ IF Len(p) >= MinPasswordLen
                 THEN /\ last'.status = 409
                      /\ last'.body = [message |-> "Email already registered"]
                 ELSE last'.status = 400
              /\ users' = users
              /\ issued' = issued
              /\ pending' = pending)]_vars

\* C4 witness: a register request for a stored email was answered 409.
C4_Witness ==
    /\ last.op = "register"
    /\ last.status = 409
    /\ Registered(last.req.email)

\* C5: under every interleaving of register requests the store never holds
\* two users with one email, and at most one request per email is answered
\* 201 with a token.
C5_OneUserPerEmail ==
    /\ \A u, v \in users : u.email = v.email => u = v
    /\ \A e \in EmailInputs : registered201[e] <= 1
    /\ \A e \in EmailInputs : registered201[e] = Cardinality({u \in users : u.email = e})

\* C5 witness: of two requests that both passed findOne, the second to reach
\* create was answered 500 and the email is stored once.
C5_Witness ==
    /\ last.op = "register"
    /\ last.status = 500
    /\ Cardinality({u \in users : u.email = last.req.email}) = 1

TrimmedNonEmpty(tags) == SelectNonEmpty(TrimAll(Strings(tags)))

SubmittedTags(body) == IF Has(body, "tags") THEN TrimmedNonEmpty(body["tags"].a) ELSE <<>>

\* C6: after POST /summaries answered 201, the very next GET /summaries
\* without a filter lists a record with the submitted note and summary, the
\* submitted tags trimmed and without the empty ones, starred = false and no
\* slug.
C6_CreatedIsListed ==
    (/\ prev.op = "create"
     /\ prev.status = 201
     /\ last.op = "list"
     /\ last.req.q = Absent)
    => /\ last.status = 200
       /\ \E i \in 1..Len(last.body.items) :
             LET item == last.body.items[i]
             IN  /\ item._id = prev.body._id
                 /\ item.note = prev.req.body["note"].s
                 /\ item.summary = prev.req.body["summary"].s
                 /\ item.tags = SubmittedTags(prev.req.body)
                 /\ item.starred = FALSE
                 /\ item.slug = NoSlug

\* C6 witness: a body with a padded tag and a blank tag was created, then listed.
C6_Witness ==
    /\ prev.op = "create"
    /\ prev.status = 201
    /\ Has(prev.req.body, "tags")
    /\ last.op = "list"
    /\ last.status = 200
    /\ Len(last.body.items) = 2

\* X occurs in text as a substring, compared case-insensitively.
OccursIn(x, text) ==
    \E k \in 0..(Len(text) - Len(x)) :
        \A j \in 1..Len(x) : LowerChar(x[j]) = LowerChar(text[k + j])

Mentions(d, x) ==
    \/ OccursIn(x, d.note)
    \/ OccursIn(x, d.summary)
    \/ \E i \in 1..Len(d.tags) : OccursIn(x, d.tags[i])

Items(ex) == {ex.body.items[i] : i \in 1..Len(ex.body.items)}

\* C7 as claimed: GET /summaries?q=X with a non-empty X returns exactly the
\* records in which X occurs, compared case-insensitively, as a substring of
\* note, of summary or of at least one tag.
C7_ExactSubstringFilter ==
    (/\ last.op = "list"
     /\ last.req.q.t = "str"
     /\ last.req.q.s # <<>>)
    => /\ last.status = 200
       /\ Items(last) = {d \in summaries : Mentions(d, last.req.q.s)}

RawPositive(raw) == raw.t = "int" /\ raw.n > 0

RECURSIVE Concat(_, _)
\* The items of pages 1..n of a walk, one after the other.
Concat(pages, n) == IF n = 0 THEN <<>> ELSE Concat(pages, n - 1) \o pages[n]

WalkMatching == filter(walk.key[1])
WalkPages == Ceil(Cardinality(WalkMatching), walk.key[3])

\* C8 as claimed: with the store unchanged, every paginated response reports
\* pages = ceil(N/L) and total = N, and the items of pages 1..pages, one after
\* the other, are the records of the unpaginated list in its sort order, each
\* record once.
C8_PagesTileTheList ==
    /\ (last.op = "list" /\ last.status = 200 /\ last.body.shape = "object")
       => LET n == Cardinality(filter(QueryText(last.req.q)))
          IN  /\ last.body.total = n
              /\ last.body.pages = Ceil(n, last.req.limit.n)
    /\ (walk # EmptyWalk /\ 1..WalkPages \subseteq DOMAIN walk.pages)
       => Concat(walk.pages, WalkPages) \in Sorted(WalkMatching, walk.key[2])

DefaultSort == "-createdAt"

RequestedSort(ex) == IF ex.req.sort.t = "str" THEN ex.req.sort.s ELSE DefaultSort

\* C9: GET /summaries answers the object {items, page, pages, total} exactly
\* when page and limit are both greater than 0; when either is absent, zero,
\* negative or not a number it answers the complete matching sequence as a
\* plain array in the requested sort order, newest first by default.
C9_DualMode ==
    (last.op = "list" /\ last.status = 200)
    => /\ last.body.shape = "object"
          <=> (RawPositive(last.req.page) /\ RawPositive(last.req.limit))
       /\ last.body.shape = "array" =>
             /\ Items(last) = filter(QueryText(last.req.q))
             /\ Len(last.body.items) = Cardinality(filter(QueryText(last.req.q)))
             /\ \A i, j \in 1..Len(last.body.items) :
                   i < j => InOrder(last.body.items[i], last.body.items[j],
                                    RequestedSort(last))
       /\ last.body.shape = "object" =>
             /\ DOMAIN last.body = {"shape", "items", "page", "pages", "total"}
             /\ last.body.page = last.req.page.n

\* C9 witness: limit was positive but page was not a number, and the answer
\* was the plain array of both records, the newer one first.
C9_Witness ==
    /\ last.op = "list"
    /\ last.status = 200
    /\ last.req.page = TextParam
    /\ RawPositive(last.req.limit)
    /\ last.req.sort = Absent
    /\ last.body.shape = "array"
    /\ Len(last.body.items) = 2
    /\ last.body.items[1].createdAt > last.body.items[2].createdAt

TwoShares ==
    /\ prev.op = "share"
    /\ prev.status = 200
    /\ last.op = "share"
    /\ last.status = 200
    /\ prev.req.id = last.req.id

Resolves(slug, id) ==
    /\ FindBySlug(slug) = ById(id)
    /\ SlugResponses(slug) =
          {Exchange("public", [slug |-> slug], 200, PublicView(d)) : d \in ById(id)}

NotFound(slug) ==
    SlugResponses(slug) = {Exchange("public", [slug |-> slug], 404, [message |-> "Not found"])}

OneResolvableSlug ==
    \A d \in summaries :
        Cardinality({s \in SlugPool : d \in FindBySlug(s)}) <= 1

\* C10 as claimed: two successive shares of one id return different
\* 10-character slugs s1 and s2, s2 resolves to the record and s1 is not
\* found; no record has more than one resolvable slug.
C10_FreshSlugEachShare ==
    /\ OneResolvableSlug
    /\ TwoShares =>
          /\ Len(last.body.slug) = SlugLen
          /\ prev.body.slug # last.body.slug
          /\ Resolves(last.body.slug, last.req.id)
          /\ NotFound(prev.body.slug)

\* C10 as amended: each successful share assigns the 10-character slug it
\* generated, replacing any previous one: after two successive shares of one
\* id returning s1 and then s2, s2 resolves to the record, and s1 is not
\* found whenever s1 differs from s2 (the generator may return the same
\* string twice); no record has more than one resolvable slug.
C10_LastShareWins ==
    /\ OneResolvableSlug
    /\ (last.op = "share" /\ last.status = 200) =>
          /\ Len(last.body.slug) = SlugLen
          /\ Resolves(last.body.slug, last.req.id)
    /\ TwoShares =>
          (prev.body.slug # last.body.slug => NotFound(prev.body.slug))

\* C10 witness: a record shared twice in a row under two different slugs.
C10_Witness ==
    /\ TwoShares
    /\ prev.body.slug # last.body.slug
    /\ ById(last.req.id) # {}

---------------------------------------------------------------------------
(* Slugs *)

HeldByAnother(slug, id) == \E e \in summaries : e._id # id /\ e.slug = slug

\* C11: no two Summaries ever have the same slug, and a share that
\* generates a slug another record holds is answered with an error and
\* leaves every record, so both slugs, as it was.
C11_UniqueSlugs ==
    [][/\ \A d, e \in summaries' : (d.slug # NoSlug /\ d.slug = e.slug) => d = e
       /\ \A id \in Ids, slug \in SlugPool :
             (ById(id) # {} /\ HeldByAnother(slug, id) /\ share(id, slug))
             => (last'.status = 500 /\ summaries' = summaries)]_vars

\* C11 witness: a share was refused while two records exist and one of
\* them holds a slug.
C11_Witness ==
    /\ last.op = "share"
    /\ last.status = 500
    /\ last.body.message = "E11000"
    /\ Cardinality(summaries) = 2
    /\ \E d \in summaries : d.slug # NoSlug /\ d._id # last.req.id

\* C12: a record carries a slug only if a successful share on that record
\* returned it: no create or update gives a record a slug.
C12_SlugOnlyFromShare ==
    [][\A d \in summaries' :
          d.slug # NoSlug
          => \/ \E e \in summaries : e._id = d._id /\ e.slug = d.slug
             \/ /\ last'.op = "share"
                /\ last'.status = 200
                /\ last'.req.id = d._id
                /\ last'.body.slug = d.slug]_vars

PublicFields == {"note", "summary", "tags", "createdAt"}

\* C13: a successful public lookup answers exactly the note, summary, tags
\* and createdAt of the record holding the slug, so the response is a
\* function of those four fields and shows neither id, owner nor starred.
C13_PublicProjection ==
    [][\A slug \in SlugPool :
          (getBySlug(slug) /\ last'.status = 200)
          => /\ DOMAIN last'.body = PublicFields
             /\ \E d \in summaries :
                   /\ d.slug = slug
                   /\ \A f \in PublicFields : last'.body[f] = d[f]]_vars

\* C13 witness: the lookup answered for a starred record while another
\* record exists.
C13_Witness ==
    /\ last.op = "public"
    /\ last.status = 200
    /\ Cardinality(summaries) = 2
    /\ \E d \in summaries : d.slug = last.req.slug /\ d.starred /\ d._id = 2

---------------------------------------------------------------------------
(* Starring *)

\* A star request whose body has no starred field.
Toggles(body) == ~Has(body, "starred")

\* The record a star request r leaves when it writes starred = value.
Starred(r, value) == [r.doc EXCEPT !.starred = value]

\* A star request r, saved while the record is stored as r read it, leaves
\* the record e, changes nothing else and answers 200 with e.
SavesAs(r, e) ==
    /\ summaries' = (summaries \ {r.doc}) \cup {e}
    /\ last'.status = 200
    /\ last'.body = e

\* C14 as stated: starred becomes the supplied value whenever the body
\* carries starred, and the negation of the stored value when it does not;
\* no other field changes, and a second body-less request right after a
\* body-less one restores the value the first one found.
C14_StarSetsOrToggles ==
    [][\A i \in 1..Len(starring) :
          LET r == starring[i]
          IN  (starSave(i) /\ r.doc \in summaries)
              => \E value \in BOOLEAN :
                    /\ SavesAs(r, Starred(r, value))
                    /\ IF Toggles(r.body) THEN value = ~r.doc.starred
                       ELSE r.body["starred"] = Bool(value)]_vars

\* The truth value JavaScript gives a JSON value that is not null.
IsTruthy(v) ==
    \/ v.t = "bool" /\ v.b
    \/ v.t = "num" /\ v.n # 0
    \/ v.t = "str" /\ Len(v.s) > 0
    \/ v.t = "arr"

\* C14, amended: starred becomes the truth value of the supplied value (the
\* value itself when it is a boolean) and the negation of the stored value
\* when starred is omitted or null; no other field changes, and a second
\* body-less request right after a body-less one restores the value the
\* first one found.
C14_StarCoercesOrToggles ==
    [][\A i \in 1..Len(starring) :
          LET r == starring[i]
              omitted == Toggles(r.body) \/ r.body["starred"] = Null
              value == IF omitted THEN ~r.doc.starred ELSE IsTruthy(r.body["starred"])
              e == Starred(r, value)
          IN  (starSave(i) /\ r.doc \in summaries)
              => /\ SavesAs(r, e)
                 /\ (/\ Toggles(r.body)
                     /\ last.op = "star"
                     /\ last.status = 200
                     /\ Toggles(last.req.body)
                     /\ last.body = r.doc)
                    => e = [last.body EXCEPT !.starred = ~last.body.starred]]_vars

\* C14 witness: a body-less star answered with starred false, that is, it
\* toggled a starred record back, while another record is stored.
C14_Witness ==
    /\ last.op = "star"
    /\ last.status = 200
    /\ Toggles(last.req.body)
    /\ ~last.body.starred
    /\ last.body \in summaries
    /\ Cardinality(summaries) = 2

---------------------------------------------------------------------------
(* Unknown ids and slugs *)

\* An update, delete, star or share request on id, update and delete with
\* a valid token.
OnId(id) ==
    \/ PutSummary(Bearer(FirstToken), id, GateUpdateBody)
    \/ DeleteSummary(Bearer(FirstToken), id)
    \/ starFind(id, EmptyBody)
    \/ \E slug \in DrawnSlugs : share(id, slug)

NotFoundById ==
    /\ last'.status = 404
    /\ last'.body = [message |-> "Summary not found"]
    /\ summaries' = summaries

NotFoundBySlug ==
    \A slug \in SlugPool :
        ((\A d \in summaries : d.slug # slug) /\ getBySlug(slug))
        => (last'.status = 404 /\ summaries' = summaries)

\* C15 as stated: update, delete, star and share on an id that no stored
\* Summary has answer 404 'Summary not found', the public lookup on a slug
\* that no Summary has answers 404, and the store is left as it was.
C15_UnknownIs404 ==
    [][/\ \A id \in Ids \cup {BadId} :
             ((\A d \in summaries : d._id # id) /\ OnId(id)) => NotFoundById
       /\ NotFoundBySlug]_vars

\* C15, amended: the same for an id that is a well-formed ObjectId; an id
\* that is none is answered 400 by update, delete and star and 500 by
\* share, with the cast error as message, and the store is left as it was.
C15_UnknownIs404OrCastError ==
    [][/\ \A id \in Ids :
             ((\A d \in summaries : d._id # id) /\ OnId(id)) => NotFoundById
       /\ OnId(BadId)
          => /\ last'.status = IF last'.op = "share" THEN 500 ELSE 400
             /\ DOMAIN last'.body = {"message"}
             /\ summaries' = summaries
       /\ NotFoundBySlug]_vars

\* C15 witness: a star request on the id of a deleted record was answered
\* 404 while another record is stored.
C15_Witness ==
    /\ last.op = "star"
    /\ last.status = 404
    /\ last.req.id = 1
    /\ summaries # {}

---------------------------------------------------------------------------
(* What create and update store *)

\* C16: the createdAt of a record is the same in every state from its
\* creation to its deletion, whatever update, star or share request is made.
C16_CreatedAtImmutable ==
    [][\A d \in summaries, e \in summaries' :
          d._id = e._id => e.createdAt = d.createdAt]_vars

\* C17: every stored Summary carries the id of the user whose token
\* created it as its owner.
C17_OwnerStored ==
    \A d \in summaries : Has(d, "userId") /\ d["userId"] = FirstUser._id

\* C18: every stored Summary has at most 10 tags, each trimmed and
\* non-empty.
C18_TagsClean ==
    \A d \in summaries :
        /\ Len(d.tags) <= TagsMax
        /\ \A i \in 1..Len(d.tags) : d.tags[i] # <<>> /\ Trim(d.tags[i]) = d.tags[i]

\* A field that is present and is no string of 1 to hi characters.
NotText(body, f, hi) ==
    Has(body, f) /\ ~(body[f].t = "str" /\ Len(body[f].s) \in 1..hi)

\* The bodies the claim calls invalid for update, and for create.
InvalidUpdate(body) ==
    \/ NotText(body, "note", NoteMax)
    \/ NotText(body, "summary", SummaryMax)
    \/ Has(body, "tags") /\ ~(body["tags"].t = "arr" /\ Len(body["tags"].a) <= TagsMax)
    \/ Has(body, "starred") /\ body["starred"].t # "bool"

InvalidCreate(body) ==
    \/ ~Has(body, "note")
    \/ ~Has(body, "summary")
    \/ NotText(body, "note", NoteMax)
    \/ NotText(body, "summary", SummaryMax)
    \/ Has(body, "tags") /\ ~(body["tags"].t = "arr" /\ Len(body["tags"].a) <= TagsMax)

\* C19: a create or update request with an invalid body is answered 400
\* and leaves the store as it was.
C19_InvalidRejected ==
    [][/\ \A body \in EditCreateBodies :
             (InvalidCreate(body) /\ PostSummary(Bearer(FirstToken), body))
             => (last'.status = 400 /\ summaries' = summaries)
       /\ \A body \in EditUpdateBodies, id \in Ids :
             (InvalidUpdate(body) /\ PutSummary(Bearer(FirstToken), id, body))
             => (last'.status = 400 /\ summaries' = summaries)]_vars

\* C20: every error response has a body of the form {message}.
C20_ErrorsCarryMessage ==
    last.status >= 400 => DOMAIN last.body = {"message"}

---------------------------------------------------------------------------
(* GET /api/health behind the middleware registered before it *)

RateMax == 100

Origins == {"none", "http://localhost:5173", "http://other.example"}

\* corsOptions.origin: no Origin header, or one of ORIGINS.
AllowedOrigin(origin) == origin \in {"none", "http://localhost:5173"}

\* rateLimit({ max }): the request that makes the window's count exceed max.
Limited == hits + 1 > RateMax

\* cors, rateLimit, then the route. Counts above RateMax + 1 behave alike.
getHealth(origin) ==
    /\ IF ~AllowedOrigin(origin)
       THEN /\ Respond(Exchange("health", [origin |-> origin], 500,
                                [message |-> "Not allowed by CORS"]))
            /\ UNCHANGED hits
       ELSE /\ hits' = Min(hits + 1, RateMax + 1)
            /\ IF Limited
               THEN Respond(Exchange("health", [origin |-> origin], 429,
                                     [text |-> "Too many requests, please try again later."]))
               ELSE Respond(Exchange("health", [origin |-> origin], 200, [status |-> "ok"]))
    /\ UNCHANGED <<authVars, storeVars, starring, walk, connected, browserVars, now, ticks,
                   clientToken>>

\* windowMs has passed since the window opened.
windowReset ==
    /\ hits > 0
    /\ hits' = 0
    /\ UNCHANGED <<authVars, storeVars, starring, walk, connected, browserVars, now, ticks,
                   clientToken, last, prev>>

\* The mongoose connection is lost or (re)established.
connection ==
    /\ connected' = ~connected
    /\ UNCHANGED <<authVars, storeVars, starring, walk, hits, browserVars, now, ticks,
                   clientToken, last, prev>>

NextHealth ==
    \/ \E origin \in Origins : getHealth(origin)
    \/ windowReset
    \/ connection

SpecHealth == Init /\ [][NextHealth]_vars

\* C22: every GET /api/health that CORS lets through is answered 200
\* {status: "ok"}, connected to the store or not, and leaves the accounts and
\* the summaries as they were.
C22_HealthAlwaysOk ==
    [][\A origin \in Origins :
          AllowedOrigin(origin) /\ getHealth(origin) =>
              /\ last'.status = 200
              /\ last'.body = [status |-> "ok"]
              /\ UNCHANGED <<authVars, storeVars>>]_vars

---------------------------------------------------------------------------
(* Update, delete and star requests racing on the same records *)

RaceBodies == {[note |-> Str(<<"b">>)], [starred |-> Bool(TRUE)]}

NextRace ==
    \/ PostSummary(Bearer(FirstToken), GateCreateBody) /\ UNCHANGED browserVars
    \/ \E id \in Ids, body \in RaceBodies : PutSummary(Bearer(FirstToken), id, body)
    \/ \E id \in Ids : DeleteSummary(Bearer(FirstToken), id)
    \/ \E id \in Ids : starFind(id, EmptyBody)
    \/ \E i \in 1..Len(starring) : starSave(i)

SpecRace == InitStore /\ [][NextRace]_vars

\* The stored record e is d after this step's write, if it made one.
WrittenBy(d, e) ==
    \/ e = d
    \/ /\ last'.op = "update" /\ last'.status = 200 /\ last'.req.id = d._id
       /\ e = ApplyUpdate(d, last'.req.body)
    \/ /\ last'.op = "star" /\ last'.status = 200 /\ last'.req.id = d._id
       /\ e = [d EXCEPT !.starred = last'.body.starred]

\* C23: update, delete and star on one id never wait for or reject one
\* another. A star request that has read the record can always finish; an
\* update or a delete of a stored record is answered 200 whatever star
\* requests are under way, and so is the save of a star whose record is
\* still stored. A step changes a stored record only by its own write, field
\* by field, so each field holds what the last write to it wrote.
C23_LastWriteWins ==
    [][/\ \A i \in 1..Len(starring) : ENABLED starSave(i)
       /\ \A id \in Ids, body \in RaceBodies :
             ById(id) # {} /\ PutSummary(Bearer(FirstToken), id, body) =>
                 /\ last'.status = 200
                 /\ \A d \in ById(id) : ApplyUpdate(d, body) \in summaries'
       /\ \A id \in Ids :
             ById(id) # {} /\ DeleteSummary(Bearer(FirstToken), id) =>
                 last'.status = 200 /\ \A e \in summaries' : e._id # id
       /\ \A i \in 1..Len(starring) :
             ById(starring[i].id) # {} /\ starSave(i) =>
                 /\ last'.status = 200
                 /\ \A e \in summaries' :
                       e._id = starring[i].id =>
                           e.starred = starredValue(starring[i].body, starring[i].doc)
       /\ \A d \in summaries, e \in summaries' : d._id = e._id => WrittenBy(d, e)]_vars

\* A star was saved after an update changed the note it had read: the
\* stored record has the update's note and the star's starred.
C23_Witness ==
    /\ last.op = "star"
    /\ last.status = 200
    /\ \E d \in summaries :
          /\ d._id = last.req.id
          /\ d.note # last.body.note
          /\ d.starred = last.body.starred

---------------------------------------------------------------------------
(* Two accounts: the protected routes with either user's token *)

SecondUser == [email |-> "c@d.com", passwordHash |-> Hash("secret1"), _id |-> 2]

SecondToken ==
    [email |-> "c@d.com", kind |-> "jwt", id |-> 2, iat |-> 0, exp |-> ExpiresIn,
     sig |-> "server"]

SecondExchange ==
    Exchange("register", [password |-> "secret1", email |-> "c@d.com"], 201,
             [token |-> SecondToken, user |-> [email |-> "c@d.com", id |-> 2]])

\* The state after both accounts were registered, the second one last.
InitOwners ==
    /\ users = {FirstUser, SecondUser}
    /\ pending = <<>>
    /\ registered201 = [e \in EmailInputs |-> IF IsEmail(e) THEN 1 ELSE 0]
    /\ now = 0
    /\ ticks = 0
    /\ issued = {FirstToken, SecondToken}
    /\ clientToken = SecondToken
    /\ summaries = {}
    /\ nextId = 0
    /\ last = SecondExchange
    /\ prev = NoExchange
    /\ walk = EmptyWalk
    /\ starring = <<>>
    /\ hits = 0
    /\ connected = TRUE
    /\ ui = Mounted(SecondToken)
    /\ net = <<>>
    /\ synth = Silent

NextOwners ==
    \/ \E auth \in IssuedHeaders : PostSummary(auth, GateCreateBody) /\ UNCHANGED browserVars
    \/ \E auth \in IssuedHeaders, id \in Ids \cup {BadId}, body \in RaceBodies :
          PutSummary(auth, id, body)
    \/ \E auth \in IssuedHeaders, id \in Ids \cup {BadId} : DeleteSummary(auth, id)

SpecOwners == InitOwners /\ [][NextOwners]_vars

\* What a PUT or DELETE may leave in the store, and what it may answer.
StoresAfter(body) ==
    {summaries} \cup {summaries \ {d} : d \in summaries}
        \cup {Replace(d, ApplyUpdate(d, body)) : d \in summaries}

Statuses == {200, 400, 401, 404}

Answers(body) ==
    {ApplyUpdate(d, body) : d \in summaries}
        \cup {[errors |-> UpdateErrors(body)]}
        \cup {[message |-> m] :
                m \in {"Summary deleted successfully", "Summary not found", "CastError",
                       "E11000", "Unauthorized", "Invalid token"}}

\* PUT /summaries/id with this token can end in store S, status st, body b.
PutGives(t, id, body, S, st, b) ==
    ENABLED (/\ PutSummary(Bearer(t), id, body)
             /\ summaries' = S /\ last'.status = st /\ last'.body = b)

DeleteGives(t, id, S, st, b) ==
    ENABLED (/\ DeleteSummary(Bearer(t), id)
             /\ summaries' = S /\ last'.status = st /\ last'.body = b)

Valid(t) == verifyJWT(Bearer(t)).ok

\* C24: with two valid tokens of different users, the same PUT or DELETE has
\* an outcome (resulting store, status and response body), and every outcome
\* it can have with one user's token it can have with the other's: whose
\* token it is plays no part.
C24_AnyValidToken ==
    \A t, u \in issued :
       Valid(t) /\ Valid(u) /\ t.id # u.id =>
          \A id \in Ids \cup {BadId} :
             /\ \A body \in RaceBodies :
                   /\ \E S \in StoresAfter(body), st \in Statuses, b \in Answers(body) :
                         PutGives(t, id, body, S, st, b)
                   /\ \A S \in StoresAfter(body), st \in Statuses, b \in Answers(body) :
                         PutGives(t, id, body, S, st, b) => PutGives(u, id, body, S, st, b)
             /\ \E S \in StoresAfter(EmptyBody), st \in Statuses, b \in Answers(EmptyBody) :
                   DeleteGives(t, id, S, st, b)
             /\ \A S \in StoresAfter(EmptyBody), st \in Statuses, b \in Answers(EmptyBody) :
                   DeleteGives(t, id, S, st, b) => DeleteGives(u, id, S, st, b)

\* The second user deleted, with 200, the record the first user had just
\* created.
C24_Witness ==
    /\ last.op = "delete" /\ last.status = 200
    /\ last.req.auth.token.id = 2
    /\ prev.op = "create"
    /\ prev.req.auth.token.id = 1
    /\ prev.body._id = last.req.id

---------------------------------------------------------------------------
(* Deleted records, with star, update and share requests racing the delete *)

\* The list the client asks for when it has no search text.
WholeList == [page |-> Absent, sort |-> Absent, q |-> Absent, limit |-> Absent]

NextGone ==
    \/ NextUnknown
    \/ getSummaries(WholeList) /\ UNCHANGED browserVars

SpecGone == InitStore /\ [][NextGone]_vars

\* An _id that was generated and whose record is not stored: it was deleted.
Deleted(id) == id \in 1..nextId /\ ById(id) = {}

\* C25: a deleted record stays deleted whatever request runs next, the save
\* of a star that read it before the delete included; no list result has an
\* item of a deleted _id, and a slug resolves only to a record that is stored
\* with that slug, as that record's public view.
C25_DeletedStaysDeleted ==
    [][/\ \A id \in Ids : Deleted(id) => Deleted(id)'
       /\ \A i \in 1..Len(starring) :
             Deleted(starring[i].id) /\ starSave(i) => summaries' = summaries
       /\ getSummaries(WholeList) =>
             /\ last'.status = 200
             /\ \A k \in 1..Len(last'.body.items) : ~Deleted(last'.body.items[k]._id)
       /\ \A slug \in SlugPool :
             getBySlug(slug) =>
                IF \E d \in summaries : d.slug = slug
                THEN \E d \in summaries : d.slug = slug /\ last'.body = PublicView(d)
                ELSE last'.status = 404]_vars

\* A star request read a record, the record was deleted, and the star's save
\* was answered 200 with the record's copy; the record is not stored.
C25_Witness ==
    /\ last.op = "star" /\ last.status = 200
    /\ Deleted(last.req.id)
    /\ last.body.slug # NoSlug

---------------------------------------------------------------------------
(* The App component: summarizing a note and saving the result *)

MaxNet == 1
MaxHistory == 2

serverVars == <<authVars, storeVars, starring, walk, edgeVars, now, ticks, last, prev>>

RECURSIVE SplitComma(_)
\* String.prototype.split(",")
SplitComma(s) ==
    IF \A k \in 1..Len(s) : s[k] # "," THEN <<s>>
    ELSE LET k == CHOOSE j \in 1..Len(s) : s[j] = "," /\ \A h \in 1..(j - 1) : s[h] # ","
         IN  <<SubSeq(s, 1, k - 1)>> \o SplitComma(SubSeq(s, k + 1, Len(s)))

\* tagsInput.split(",").map((tag) => tag.trim()).filter(Boolean)
deriveTags(tagsInput) == SelectNonEmpty(TrimAll(SplitComma(tagsInput)))

\* JSON.stringify of an array of strings, as the server parses it.
JSONTags(tags) == Arr([k \in 1..Len(tags) |-> Str(tags[k])])

\* `temp-${Date.now()}`: a key no server _id equals, one per clock value.
TempId(t) == 0 - (t + 1)

\* withAuth: the Authorization header, from localStorage at the time of the call.
withAuth == IF clientToken = NoToken THEN NoAuth ELSE Bearer(clientToken)

NoResponse == [status |-> 0, body |-> [t |-> "null"]]

\* The user edits the note or the tags field.
typeNote(text) ==
    /\ ui.note # text
    /\ ui' = [ui EXCEPT !.note = text]
    /\ UNCHANGED <<serverVars, clientToken, net, synth>>

typeTags(text) ==
    /\ ui.tagsInput # text
    /\ ui' = [ui EXCEPT !.tagsInput = text]
    /\ UNCHANGED <<serverVars, clientToken, net, synth>>

\* The draft effect's timer, 600 ms after the last change of the note.
persistDraft ==
    LET draft == IF Trim(ui.note) # <<>> THEN Str(ui.note) ELSE [t |-> "null"]
    IN  /\ ui.draft # draft
        /\ ui' = [ui EXCEPT !.draft = draft]
        /\ UNCHANGED <<serverVars, clientToken, net, synth>>

\* setTimeout(() => setToast(null), ...)
toastExpires ==
    /\ ui.toast # NoToast
    /\ ui' = [ui EXCEPT !.toast = NoToast]
    /\ UNCHANGED <<serverVars, clientToken, net, synth>>

\* handleSummarize up to its first await: the call goes out with the note,
\* the tags field and the token state of the render it was started from.
handleSummarize ==
    /\ Trim(ui.note) # <<>>
    /\ Len(net) < MaxNet
    /\ Len(ui.history) < MaxHistory
    /\ ui' = [ui EXCEPT !.loading = TRUE]
    /\ net' = Append(net, [kind |-> "generate", token |-> ui.token,
                           note |-> ui.note, tagsInput |-> ui.tagsInput])
    /\ UNCHANGED <<serverVars, clientToken, synth>>

generateFailsClearing(i) ==
    /\ net[i].kind = "generate"
    /\ ui' = [ui EXCEPT !.toast = "Summarization failed", !.loading = FALSE,
                        !.note = <<>>]
    /\ net' = Without(net, i)
    /\ UNCHANGED <<serverVars, clientToken, synth>>

\* generateContent or response.text() throws: the outer catch and finally.
generateFails(i) ==
    /\ net[i].kind = "generate"
    /\ ui' = [ui EXCEPT !.toast = "Summarization failed", !.loading = FALSE]
    /\ net' = Without(net, i)
    /\ UNCHANGED <<serverVars, clientToken, synth>>

\* The model answers: setSummary, requireAuth on the captured token state,
\* then the temporary entry and the save request.
generateAnswers(i, response) ==
    LET r == net[i]
        tags == deriveTags(r.tagsInput)
        tempId == TempId(now)
        tempEntry == [_id |-> tempId, note |-> r.note, summary |-> response,
                      tags |-> tags, starred |-> FALSE, createdAt |-> now]
    IN  /\ r.kind = "generate"
        /\ IF r.token = NoToken
           THEN /\ ui' = [ui EXCEPT !.summary = response, !.showAuth = TRUE,
                                    !.loading = FALSE]
                /\ net' = Without(net, i)
           ELSE /\ ui' = [ui EXCEPT !.summary = response,
                                    !.history = <<tempEntry>> \o @]
                /\ net' = [net EXCEPT ![i] =
                             [body |-> [note |-> Str(r.note), summary |-> Str(response),
                                        tags |-> JSONTags(tags)],
                              kind |-> "save", auth |-> withAuth, response |-> response,
                              tempId |-> tempId, state |-> "sent",
                              res |-> NoResponse]]
        /\ UNCHANGED <<serverVars, clientToken, synth>>

\* The server handles the save request; the response is on its way.
serveSave(i) ==
    /\ net[i].kind = "save"
    /\ net[i].state = "sent"
    /\ PostSummary(net[i].auth, net[i].body)
    /\ net' = [net EXCEPT ![i].state = "answered",
                          ![i].res = [status |-> last'.status, body |-> last'.body]]
    /\ UNCHANGED <<ui, synth>>

\* fetch rejects (the request or its response is lost): the inner catch.
saveThrows(i) ==
    /\ net[i].kind = "save"
    /\ ui' = [ui EXCEPT !.toast = "Save failed", !.loading = FALSE]
    /\ net' = Without(net, i)
    /\ UNCHANGED <<serverVars, clientToken, synth>>

\* item._id === tempId ? saved : item
Swap(history, tempId, saved) ==
    [k \in 1..Len(history) |->
        IF "_id" \in DOMAIN history[k] /\ history[k]._id = tempId
        THEN saved ELSE history[k]]

\* fetch resolves: request() drops the stored token on 401, save() returns
\* the parsed body whatever the status, and handleSummarize goes on.
saveReturns(i) ==
    LET r == net[i]
    IN  /\ r.kind = "save"
        /\ r.state = "answered"
        /\ clientToken' = IF r.res.status = 401 THEN NoToken ELSE clientToken
        /\ ui' = [ui EXCEPT !.history = Swap(@, r.tempId, r.res.body),
                            !.toast = "Summary saved", !.note = <<>>,
                            !.summary = r.response, !.tagsInput = <<>>,
                            !.draft = [t |-> "null"], !.loading = FALSE]
        /\ net' = Without(net, i)
        /\ UNCHANGED <<serverVars, synth>>

NoteInputs == {<<>>, <<"a">>}
TagInputs == {<<>>, <<"x", ",", " ">>}
Responses == {<<"s">>, <<>>}

\* The App signed in as the first user, its history loaded from the empty store.
InitSummarize ==
    /\ users = {FirstUser}
    /\ pending = <<>>
    /\ registered201 = [e \in EmailInputs |-> IF e = "a@b.com" THEN 1 ELSE 0]
    /\ now = 0
    /\ ticks = 0
    /\ issued = {FirstToken}
    /\ clientToken = FirstToken
    /\ summaries = {}
    /\ nextId = 0
    /\ last = FirstExchange
    /\ prev = NoExchange
    /\ walk = EmptyWalk
    /\ starring = <<>>
    /\ hits = 0
    /\ connected = TRUE
    /\ ui = [Mounted(FirstToken) EXCEPT !.historyLoading = FALSE, !.hasMore = FALSE,
                                        !.page = 2]
    /\ net = <<>>
    /\ synth = Silent

NextSummarize ==
    \/ \E text \in NoteInputs : typeNote(text)
    \/ \E text \in TagInputs : typeTags(text)
    \/ persistDraft
    \/ toastExpires
    \/ handleSummarize
    \/ \E i \in 1..Len(net) : generateFails(i)
    \/ \E i \in 1..Len(net), response \in Responses : generateAnswers(i, response)
    \/ \E i \in 1..Len(net) : serveSave(i)
    \/ \E i \in 1..Len(net) : saveThrows(i)
    \/ \E i \in 1..Len(net) : saveReturns(i)
    \/ Tick(ExpiresIn)
    \/ signOut

SpecSummarize == InitSummarize /\ [][NextSummarize]_vars

\* C21: when the model call fails, the note, the tags field, the stored draft
\* and the history are as before, the failed call is gone and no request
\* takes its place (no save is sent, the server is not reached), and loading
\* is false.
C21_FailedCallKeepsInput ==
    [][\A i \in 1..Len(net) :
          generateFails(i) =>
              /\ ui'.note = ui.note
              /\ ui'.tagsInput = ui.tagsInput
              /\ ui'.draft = ui.draft
              /\ ui'.history = ui.history
              /\ net' = Without(net, i)
              /\ UNCHANGED <<summaries, nextId, last>>
              /\ ~ui'.loading]_vars

\* A model call failed while a note with tags was in the form: the call is
\* gone, the form still holds both, and the button is enabled again.
C21_Witness ==
    /\ ui.toast = "Summarization failed"
    /\ Trim(ui.note) # <<>>
    /\ ui.tagsInput # <<>>
    /\ ui.draft # [t |-> "null"]
    /\ ~ui.loading
    /\ net = <<>>

\* The same App with a model that answers or fails and saves that arrive.
NextCall ==
    \/ \E text \in NoteInputs : typeNote(text)
    \/ \E text \in TagInputs : typeTags(text)
    \/ persistDraft
    \/ handleSummarize
    \/ \E i \in 1..Len(net) : generateFails(i)
    \/ \E i \in 1..Len(net) : generateAnswers(i, <<"s">>)
    \/ \E i \in 1..Len(net) : serveSave(i)
    \/ \E i \in 1..Len(net) : saveReturns(i)

SpecCall == InitSummarize /\ [][NextCall]_vars

\* A history entry that is a Summary, stored or temporary.
IsSummary(entry) == {"_id", "note", "summary"} \subseteq DOMAIN entry

\* C26: when the save creates no record (the request throws, or the server
\* answers another status than 201), the note and the draft stay, the toast
\* is not "Summary saved", and every history entry is still a Summary.
C26_FailedSaveKeepsNote ==
    [][\A i \in 1..Len(net) :
          (saveThrows(i) \/ (saveReturns(i) /\ net[i].res.status # 201)) =>
              /\ ui'.note = ui.note
              /\ ui'.draft = ui.draft
              /\ ui'.toast # "Summary saved"
              /\ \A k \in 1..Len(ui'.history) : IsSummary(ui'.history[k])]_vars

\* C27: when localStorage holds no token, the App's token state is empty too
\* (requireAuth returns false, the header shows nobody signed in).
C27_TokenStateAgrees ==
    clientToken = NoToken => ui.token = NoToken

---------------------------------------------------------------------------
(* The App component: the history list, its search box and Load more *)

MaxLoads == 2

PageLimit == 10

\* summaryAPI.getAll({ q, page, limit: 10, sort: "-createdAt" }): a parameter
\* that is "" is left out of the query string.
ListQuery(search, pageToLoad) ==
    [page |-> IntParam(pageToLoad), sort |-> Str("-createdAt"),
     q |-> IF search = <<>> THEN Absent ELSE Str(search),
     limit |-> IntParam(PageLimit)]

\* loadHistoryPaged(pageToLoad, reset) up to its await; search is the text
\* of the render that made this loadHistoryPaged.
Load(search, pageToLoad, reset) ==
    [kind |-> "list", search |-> search, page |-> pageToLoad, state |-> "sent",
     res |-> NoResponse, reset |-> reset]

\* The search box, shown with the history section: the state changes, the
\* effect on loadHistoryPaged loads page 1 at once and the 300 ms timer starts.
setSearch(text) ==
    /\ Len(ui.history) > 0
    /\ ui.search # text
    /\ Len(net) < MaxLoads
    /\ ui' = [ui EXCEPT !.search = text, !.historyLoading = TRUE, !.searchTimer = TRUE]
    /\ net' = Append(net, Load(text, 1, TRUE))
    /\ UNCHANGED <<serverVars, clientToken, synth>>

\* The 300 ms timer of the search effect fires.
searchTimerFires ==
    /\ ui.searchTimer
    /\ Len(net) < MaxLoads
    /\ ui' = [ui EXCEPT !.historyLoading = TRUE, !.searchTimer = FALSE]
    /\ net' = Append(net, Load(ui.search, 1, TRUE))
    /\ UNCHANGED <<serverVars, clientToken, synth>>

\* The Reset button: setSearch(""), and loadHistoryPaged(1, true) of the
\* current render, which still has the old text; when the text changes the
\* effects run as in setSearch.
resetSearch ==
    /\ Len(ui.history) > 0
    /\ Len(net) + (IF ui.search = <<>> THEN 1 ELSE 2) <= MaxLoads
    /\ ui' = [ui EXCEPT !.search = <<>>, !.historyLoading = TRUE,
                        !.searchTimer = IF ui.search = <<>> THEN @ ELSE TRUE]
    /\ net' = IF ui.search = <<>> THEN Append(net, Load(ui.search, 1, TRUE))
              ELSE net \o <<Load(ui.search, 1, TRUE), Load(<<>>, 1, TRUE)>>
    /\ UNCHANGED <<serverVars, clientToken, synth>>

\* The Load more button, shown under the list while hasMore.
loadMore ==
    /\ Len(ui.history) > 0
    /\ ~ui.historyLoading
    /\ ui.hasMore
    /\ Len(net) < MaxLoads
    /\ net' = Append(net, Load(ui.search, ui.page, FALSE))
    /\ UNCHANGED <<serverVars, clientToken, ui, synth>>

\* The server handles a list request.
serveList(i) ==
    /\ net[i].kind = "list"
    /\ net[i].state = "sent"
    /\ getSummaries(ListQuery(net[i].search, net[i].page))
    /\ net' = [net EXCEPT ![i].state = "answered",
                          ![i].res = [status |-> last'.status, body |-> last'.body]]
    /\ UNCHANGED <<ui, synth>>

\* fetch resolves with a list (the search texts used here all compile, so
\* the answer is a 200): loadHistoryPaged after its await.
listReturns(i) ==
    LET r == net[i]
        data == r.res.body
    IN  /\ r.kind = "list"
        /\ r.state = "answered"
        /\ r.res.status = 200
        /\ ui' = [ui EXCEPT
                    !.history = IF r.reset THEN data.items ELSE @ \o data.items,
                    !.hasMore = data.shape = "object" /\ r.page < data.pages,
                    !.page = IF data.shape = "object" THEN r.page + 1 ELSE @,
                    !.historyLoading = FALSE]
        /\ net' = Without(net, i)
        /\ UNCHANGED <<serverVars, clientToken, synth>>

\* fetch rejects: the catch and finally of loadHistoryPaged.
listThrows(i) ==
    /\ net[i].kind = "list"
    /\ ui' = [ui EXCEPT !.hasMore = FALSE, !.toast = "Failed to load history",
                        !.historyLoading = FALSE]
    /\ net' = Without(net, i)
    /\ UNCHANGED <<serverVars, clientToken, synth>>

SearchInputs == {<<>>, <<"a">>, <<"b">>}

\* The k-th of the records created one per second; the last one says "b".
Created(k) ==
    [_id |-> k, note |-> IF k > PageLimit THEN <<"b">> ELSE <<"a">>,
     summary |-> <<"s">>, slug |-> NoSlug, tags |-> <<>>, starred |-> FALSE,
     createdAt |-> k]

\* The App just mounted, signed in, over a store of one record more than a
\* page holds: the first load is on its way and the search timer runs.
InitHistory ==
    /\ users = {FirstUser}
    /\ pending = <<>>
    /\ registered201 = [e \in EmailInputs |-> IF e = "a@b.com" THEN 1 ELSE 0]
    /\ now = PageLimit + 1
    /\ ticks = 0
    /\ issued = {FirstToken}
    /\ clientToken = FirstToken
    /\ summaries = {Created(k) : k \in 1..(PageLimit + 1)}
    /\ nextId = PageLimit + 1
    /\ last = Exchange("create",
                       [body |-> [note |-> Str(<<"b">>), summary |-> Str(<<"s">>)],
                        auth |-> Bearer(FirstToken)],
                       201, Created(PageLimit + 1))
    /\ prev = NoExchange
    /\ walk = EmptyWalk
    /\ starring = <<>>
    /\ hits = 0
    /\ connected = TRUE
    /\ ui = [Mounted(FirstToken) EXCEPT !.searchTimer = TRUE]
    /\ net = <<Load(<<>>, 1, TRUE)>>
    /\ synth = Silent

NextHistory ==
    \/ \E text \in SearchInputs : setSearch(text)
    \/ searchTimerFires
    \/ resetSearch
    \/ loadMore
    \/ \E i \in 1..Len(net) : serveList(i)
    \/ \E i \in 1..Len(net) : listReturns(i)
    \/ \E i \in 1..Len(net) : listThrows(i)
    \/ toastExpires

SpecHistory == InitHistory /\ [][NextHistory]_vars

\* The same App when no list request is lost.
NextSearch ==
    \/ \E text \in SearchInputs : setSearch(text)
    \/ searchTimerFires
    \/ resetSearch
    \/ loadMore
    \/ \E i \in 1..Len(net) : serveList(i)
    \/ \E i \in 1..Len(net) : listReturns(i)

SpecSearch == InitHistory /\ [][NextSearch]_vars

\* The records that match the text in the search box.
Matching == filter(Trim(ui.search))

\* Every list response has arrived and no load is due.
Settled == net = <<>> /\ ~ui.searchTimer

\* C28: once every list response has arrived, the history shows the result
\* for the text in the search box and nothing of another text's result: each
\* entry matches the text, and the first page of the matching records is
\* there.
C28_LatestSearchShown ==
    Settled =>
        /\ \A k \in 1..Len(ui.history) : ui.history[k] \in Matching
        /\ \E all \in Sorted(Matching, "-createdAt") :
              \A j \in 1..Min(PageLimit, Len(all)) :
                 \E k \in 1..Len(ui.history) : ui.history[k] = all[j]

\* C29: no two entries of the history have the same _id.
C29_DistinctIds ==
    \A j, k \in 1..Len(ui.history) :
       j # k => ui.history[j]._id # ui.history[k]._id

---------------------------------------------------------------------------
(* The App component: reading the summary aloud *)

MaxUtterances == 2

\* handleSpeak as made by a render whose state was `seen`, run when the
\* state to come is `next` and speechSynthesis is `s`: the state setters
\* act on next, the branches read seen; utteranceRef is a ref and is read
\* as it is now.
Speak(seen, next, s) ==
    IF seen.isSpeaking
    THEN [ui |-> [next EXCEPT !.isSpeaking = FALSE, !.paused = TRUE,
                                 !.showResumeOptions = TRUE],
          synth |-> [s EXCEPT !.paused = TRUE]]
    ELSE IF seen.paused /\ next.utteranceRef # NoUtterance
    THEN [ui |-> [next EXCEPT !.isSpeaking = TRUE, !.paused = FALSE,
                                 !.showResumeOptions = FALSE],
          synth |-> [s EXCEPT !.paused = FALSE]]
    ELSE LET utterance == [text |-> seen.summary, made |-> s.spoken + 1]
         IN  [ui |-> [next EXCEPT !.utteranceRef = utterance, !.isSpeaking = TRUE,
                                     !.showResumeOptions = FALSE],
              synth |-> [s EXCEPT !.spoken = @ + 1,
                                  !.utterance = IF @ = NoUtterance THEN utterance ELSE @]]

\* speechSynthesis.cancel(): the queue is emptied, the paused flag stays; an
\* utterance that was under way gets a last event.
Cancelled(s) ==
    [s EXCEPT !.utterance = NoUtterance, !.ending = @ \/ s.utterance # NoUtterance]

\* Listen / Pause audio / Continue, shown with the summary.
handleSpeak ==
    LET done == Speak(ui, ui, synth)
    IN  /\ ui.summary # <<>>
        /\ done.synth.spoken <= MaxUtterances
        /\ ui' = done.ui
        /\ synth' = done.synth
        /\ UNCHANGED <<serverVars, clientToken, net>>

\* Restart, shown with showResumeOptions: cancel, the three setters, then
\* the handleSpeak of the render the button belongs to.
restartSpeech ==
    LET cleared == [ui EXCEPT !.isSpeaking = FALSE, !.paused = FALSE,
                              !.showResumeOptions = FALSE]
        done == Speak(ui, cleared, Cancelled(synth))
    IN  /\ ui.summary # <<>>
        /\ ui.showResumeOptions
        /\ done.synth.spoken <= MaxUtterances
        /\ ui' = done.ui
        /\ synth' = done.synth
        /\ UNCHANGED <<serverVars, clientToken, net>>

\* utterance.onend
onend ==
    [ui EXCEPT !.isSpeaking = FALSE, !.paused = FALSE, !.showResumeOptions = FALSE]

\* The utterance under way has been spoken to its end.
utteranceEnds ==
    /\ synth.utterance # NoUtterance
    /\ ~synth.paused
    /\ synth' = [synth EXCEPT !.utterance = NoUtterance]
    /\ ui' = onend
    /\ UNCHANGED <<serverVars, clientToken, net>>

\* The last event of a cancelled utterance: "end" in some browsers, which
\* runs onend, "error" in others, for which the App has no handler.
cancelledEnd ==
    /\ synth.ending
    /\ synth' = [synth EXCEPT !.ending = FALSE]
    /\ ui' = onend
    /\ UNCHANGED <<serverVars, clientToken, net>>

cancelledError ==
    /\ synth.ending
    /\ synth' = [synth EXCEPT !.ending = FALSE]
    /\ UNCHANGED <<serverVars, clientToken, net, ui>>

\* The App of a visitor who is not signed in, its history loaded from the
\* empty store.
InitSpeech ==
    /\ users = {}
    /\ pending = <<>>
    /\ registered201 = [e \in EmailInputs |-> 0]
    /\ now = 0
    /\ ticks = 0
    /\ issued = {}
    /\ clientToken = NoToken
    /\ summaries = {}
    /\ nextId = 0
    /\ last = NoExchange
    /\ prev = NoExchange
    /\ walk = EmptyWalk
    /\ starring = <<>>
    /\ hits = 0
    /\ connected = TRUE
    /\ ui = [Mounted(NoToken) EXCEPT !.historyLoading = FALSE, !.hasMore = FALSE,
                                     !.page = 2]
    /\ net = <<>>
    /\ synth = Silent

NextSpeech ==
    \/ \E text \in NoteInputs : typeNote(text)
    \/ handleSummarize
    \/ \E i \in 1..Len(net) : generateFails(i)
    \/ \E i \in 1..Len(net), response \in Responses : generateAnswers(i, response)
    \/ toastExpires
    \/ handleSpeak
    \/ restartSpeech
    \/ utteranceEnds
    \/ cancelledEnd
    \/ cancelledError

SpecSpeech == InitSpeech /\ [][NextSpeech]_vars

\* C30: Restart while paused leaves speechSynthesis speaking a new utterance
\* of the summary, one that speak() was given in this step, and the App with
\* isSpeaking true, paused false and showResumeOptions false.
C30_RestartSpeaksAnew ==
    [][restartSpeech /\ ui.paused =>
          /\ synth'.spoken = synth.spoken + 1
          /\ synth'.utterance = [text |-> ui.summary, made |-> synth'.spoken]
          /\ ~synth'.paused
          /\ ui'.isSpeaking /\ ~ui'.paused /\ ~ui'.showResumeOptions]_vars

====
